---------------------------- MODULE Spec2Model ----------------------------
(***************************************************************************)
(* Model of the research engine of the Polymarket trading framework: the   *)
(* streaming cascade detector (src/src/strategies/a2_cascade.py), the      *)
(* screening engine (src/screening_engine.py), the bot score               *)
(* (src/src/domain/bot_score.py), the market data provider                 *)
(* (src/providers.py) and the polling loop that wires them together        *)
(* (src/scripts/research_engine.py).                                       *)
(*                                                                         *)
(* Units.  Python floats are modelled by scaled integers and exact         *)
(* rational comparisons:                                                   *)
(*   - prices (mid, spread, mid_move_abs) in thousandths: 500 is 0.500;    *)
(*   - depth5, vol24h, equity and S in whole dollars;                      *)
(*   - fractions such as 0.60 as a percentage (60 of 100);                 *)
(*   - the bot score in 1/FP (fixed point, logarithms by series).          *)
(* An Optional[float] is the empty tuple (None) or a one-element tuple.    *)
(***************************************************************************)
EXTENDS Integers, Sequences, FiniteSets, TLC

(***************************************************************************)
(* Optional values                                                         *)
(***************************************************************************)
None == << >>

Some(v) == << v >>

IsNone(x) == x = << >>

Val(x) == x[1]

Abs(x) == IF x < 0 THEN 0 - x ELSE x

Min2(a, b) == IF a <= b THEN a ELSE b

(***************************************************************************)
(* Bounds of the model                                                     *)
(***************************************************************************)
\* polling cycles the loop is followed for
MaxCycles == 2

\* snapshots fetched over all the cycles
MaxFetches == 2

\* length of the raw market list Gamma returns in one cycle
MaxRaw == 3

\* number of distinct market ids
NumMarkets == 2

Markets == 1..NumMarkets

(***************************************************************************)
(* A2 cascade detector: src/src/strategies/a2_cascade.py                   *)
(***************************************************************************)
\* A2Params.spread_mult = 2.0
A2_SPREAD_MULT == 2

\* A2Params.depth_collapse = 0.60, as a percentage
A2_DEPTH_COLLAPSE_PCT == 60

\* A2Params.sigma_k = 2.0
A2_SIGMA_K == 2

A2State(mid, spread, depth5) ==
    [last_mid |-> mid, last_spread |-> spread, last_depth5 |-> depth5]

\* A2State(): every field None
A2StateDefault == A2State(None, None, None)

\* strength is the fraction <<n, 3>>: <<2, 3>> is 2/3, <<3, 3>> is 1.0
A2Signal(fired, direction, strength, details) ==
    [fired |-> fired, direction |-> direction, strength |-> strength,
     details |-> details]

\* the two early returns, in the order the code tests them
EarlyReturn_HistoryFirst(curr_mid, curr_spread, curr_depth5, med_spread, med_depth5) ==
    IF IsNone(med_spread) \/ IsNone(med_depth5) THEN "INSUFFICIENT_HISTORY"
    ELSE IF IsNone(curr_mid) \/ IsNone(curr_spread) \/ IsNone(curr_depth5)
    THEN "MISSING_DATA"
    ELSE ""

EarlyReturn(curr_mid, curr_spread, curr_depth5, med_spread, med_depth5) ==
    IF IsNone(curr_mid) \/ IsNone(curr_spread) \/ IsNone(curr_depth5)
    THEN "MISSING_DATA"
    ELSE IF IsNone(med_spread) \/ IsNone(med_depth5) THEN "INSUFFICIENT_HISTORY"
    ELSE ""

SpreadExpansion_NoMargin(curr_spread, med_spread) ==
    med_spread > 0 /\ curr_spread >= med_spread

\* 1) med_spread > 0 and curr_spread >= p.spread_mult * med_spread
SpreadExpansion(curr_spread, med_spread) ==
    med_spread > 0 /\ curr_spread >= A2_SPREAD_MULT * med_spread

\* 2) med_depth5 > 0 and curr_depth5 <= p.depth_collapse * med_depth5
DepthCollapse(curr_depth5, med_depth5) ==
    med_depth5 > 0 /\ 100 * curr_depth5 <= A2_DEPTH_COLLAPSE_PCT * med_depth5

\* 3) state.last_mid is not None, curr_spread > 0 and
\*    abs(curr_mid - state.last_mid) >= p.sigma_k * curr_spread
MidJump(curr_mid, curr_spread, state) ==
    /\ ~IsNone(state.last_mid)
    /\ curr_spread > 0
    /\ Abs(curr_mid - Val(state.last_mid)) >= A2_SIGMA_K * curr_spread

Reasons_MidJumpFirst(se, dc, mj) ==
    (IF mj THEN << "MID_JUMP" >> ELSE << >>)
    \o (IF se THEN << "SPREAD_EXPANSION" >> ELSE << >>)
    \o (IF dc THEN << "DEPTH_COLLAPSE" >> ELSE << >>)

\* reasons, appended in the order of the three tests
Reasons(se, dc, mj) ==
    (IF se THEN << "SPREAD_EXPANSION" >> ELSE << >>)
    \o (IF dc THEN << "DEPTH_COLLAPSE" >> ELSE << >>)
    \o (IF mj THEN << "MID_JUMP" >> ELSE << >>)

IsCascade_AllThree(conds) == conds >= 3

\* is_cascade = conds >= 2
IsCascade(conds) == conds >= 2

Direction_ZeroIsUp(curr_mid, state) ==
    IF IsNone(state.last_mid) THEN None
    ELSE IF curr_mid - Val(state.last_mid) >= 0 THEN Some("FADE_UP")
    ELSE Some("FADE_DOWN")

\* direction = None; if state.last_mid is not None: FADE_UP if delta > 0 else FADE_DOWN
Direction(curr_mid, state) ==
    IF IsNone(state.last_mid) THEN None
    ELSE IF curr_mid - Val(state.last_mid) > 0 THEN Some("FADE_UP")
    ELSE Some("FADE_DOWN")

\* the arguments are Optional values; state is an A2State
a2_detect(curr_mid, curr_spread, curr_depth5, med_spread, med_depth5, state) ==
    LET early == EarlyReturn(curr_mid, curr_spread, curr_depth5, med_spread, med_depth5)
    IN  IF early # "" THEN A2Signal(FALSE, None, << 0, 3 >>, << early >>)
        ELSE
          LET se == SpreadExpansion(Val(curr_spread), Val(med_spread))
              dc == DepthCollapse(Val(curr_depth5), Val(med_depth5))
              mj == MidJump(Val(curr_mid), Val(curr_spread), state)
              reasons == Reasons(se, dc, mj)
              conds == Len(reasons)
          IN  IF ~IsCascade(conds)
              THEN A2Signal(FALSE, None, << 0, 3 >>,
                            IF reasons # << >> THEN reasons ELSE << "NO_CASCADE" >>)
              ELSE A2Signal(TRUE, Direction(Val(curr_mid), state),
                            << Min2(3, conds), 3 >>, reasons)

(***************************************************************************)
(* Screening engine: src/screening_engine.py                               *)
(***************************************************************************)
\* SETTINGS.EQUITY = 10_000.0
EQUITY == 10000

\* SETTINGS.TARGET_POS_FRAC = 0.01, as a percentage
TARGET_POS_FRAC_PCT == 1

depth5_min_mult_A == 8

vol24h_min_mult_A == 20

depth5_min_mult_H == 3

\* a family-H volume multiplier above the family-A one
vol24h_min_mult_H_AboveA == vol24h_min_mult_A + 10

vol24h_min_mult_H == 10

\* exit_risk_max_A = 0.10, as a percentage
exit_risk_max_A_PCT == 10

\* exit_risk_max_H = 0.20, as a percentage
exit_risk_max_H_PCT == 20

\* ScreeningConfig: the fractions target_pos_frac, exit_risk_max_A and
\* exit_risk_max_H are percentages
ScreeningConfig(equity, target_pos_frac, d5A, v24A, d5H, v24H, erA, erH) ==
    [equity |-> equity, target_pos_frac_pct |-> target_pos_frac,
     depth5_min_mult_A |-> d5A, vol24h_min_mult_A |-> v24A,
     depth5_min_mult_H |-> d5H, vol24h_min_mult_H |-> v24H,
     exit_risk_max_A_pct |-> erA, exit_risk_max_H_pct |-> erH]

\* ScreeningConfig(equity=SETTINGS.EQUITY, target_pos_frac=SETTINGS.TARGET_POS_FRAC)
screener ==
    ScreeningConfig(EQUITY, TARGET_POS_FRAC_PCT, depth5_min_mult_A, vol24h_min_mult_A,
                    depth5_min_mult_H, vol24h_min_mult_H,
                    exit_risk_max_A_PCT, exit_risk_max_H_PCT)

\* ScreeningEngine.S: equity * target_pos_frac
EngineS(cfg) == (cfg.equity * cfg.target_pos_frac_pct) \div 100

\* S of the engine the polling loop builds
S == EngineS(screener)

ScreeningResult(ok, reason, family, s, exit_risk, depth5_min, vol24h_min) ==
    [ok |-> ok, reason |-> reason, family |-> family, S |-> s,
     exit_risk |-> exit_risk, depth5_min |-> depth5_min, vol24h_min |-> vol24h_min]

\* max(vol24h, 1e-9) for a whole-dollar vol24h, as <<dollars, billionths>>
MaxEps(vol24h) == IF vol24h >= 1 THEN << vol24h, 0 >> ELSE << 0, 1 >>

\* exit_risk = vol24h / S: the quotient upside down
ExitRisk_Inverted(s, vol24h) == [num |-> vol24h, den |-> << s, 0 >>]

\* exit_risk = S / max(vol24h, 1e-9), kept as the fraction [num, den]
ExitRisk(s, vol24h) == [num |-> s, den |-> MaxEps(vol24h)]

\* exit_risk > exit_risk_max, the maximum being pct/100
ExitRiskExceeds(er, pct) ==
    IF er.den[2] = 0 THEN 100 * er.num > pct * er.den[1]
    ELSE er.num > 0

\* the ladder without the check of vol24h against its minimum
EngineScreen_NoVolumeFloor(cfg, family, vol24h, depth5, ok_clob) ==
    LET s == EngineS(cfg)
        depth5_min == IF family = "A" THEN cfg.depth5_min_mult_A * s
                      ELSE cfg.depth5_min_mult_H * s
        vol24h_min == IF family = "A" THEN cfg.vol24h_min_mult_A * s
                      ELSE cfg.vol24h_min_mult_H * s
        exit_risk_max == IF family = "A" THEN cfg.exit_risk_max_A_pct
                         ELSE cfg.exit_risk_max_H_pct
        R(ok, reason, er) ==
            ScreeningResult(ok, reason, family, s, er, depth5_min, vol24h_min)
    IN  IF ~ok_clob \/ IsNone(depth5) THEN R(FALSE, "NO_CLOB_BOOK", None)
        ELSE IF Val(depth5) < depth5_min THEN R(FALSE, "DEPTH_TOO_LOW", None)
        ELSE IF IsNone(vol24h) THEN R(FALSE, "VOL24H_MISSING", None)
        ELSE LET exit_risk == ExitRisk(s, Val(vol24h))
             IN  IF ExitRiskExceeds(exit_risk, exit_risk_max)
                 THEN R(FALSE, "EXIT_RISK_TOO_HIGH", Some(exit_risk))
                 ELSE R(TRUE, "OK", Some(exit_risk))

\* the ladder with the volume checks in front of the depth check
EngineScreen_VolumeFirst(cfg, family, vol24h, depth5, ok_clob) ==
    LET s == EngineS(cfg)
        depth5_min == IF family = "A" THEN cfg.depth5_min_mult_A * s
                      ELSE cfg.depth5_min_mult_H * s
        vol24h_min == IF family = "A" THEN cfg.vol24h_min_mult_A * s
                      ELSE cfg.vol24h_min_mult_H * s
        exit_risk_max == IF family = "A" THEN cfg.exit_risk_max_A_pct
                         ELSE cfg.exit_risk_max_H_pct
        R(ok, reason, er) ==
            ScreeningResult(ok, reason, family, s, er, depth5_min, vol24h_min)
    IN  IF ~ok_clob \/ IsNone(depth5) THEN R(FALSE, "NO_CLOB_BOOK", None)
        ELSE IF IsNone(vol24h) THEN R(FALSE, "VOL24H_MISSING", None)
        ELSE IF Val(vol24h) < vol24h_min THEN R(FALSE, "VOL24H_TOO_LOW", None)
        ELSE IF Val(depth5) < depth5_min THEN R(FALSE, "DEPTH_TOO_LOW", None)
        ELSE LET exit_risk == ExitRisk(s, Val(vol24h))
             IN  IF ExitRiskExceeds(exit_risk, exit_risk_max)
                 THEN R(FALSE, "EXIT_RISK_TOO_HIGH", Some(exit_risk))
                 ELSE R(TRUE, "OK", Some(exit_risk))

\* ScreeningEngine.screen of an engine with configuration cfg; vol24h and
\* depth5 are Optional values
EngineScreen(cfg, family, vol24h, depth5, ok_clob) ==
    LET s == EngineS(cfg)
        depth5_min == IF family = "A" THEN cfg.depth5_min_mult_A * s
                      ELSE cfg.depth5_min_mult_H * s
        vol24h_min == IF family = "A" THEN cfg.vol24h_min_mult_A * s
                      ELSE cfg.vol24h_min_mult_H * s
        exit_risk_max == IF family = "A" THEN cfg.exit_risk_max_A_pct
                         ELSE cfg.exit_risk_max_H_pct
        R(ok, reason, er) ==
            ScreeningResult(ok, reason, family, s, er, depth5_min, vol24h_min)
    IN  IF ~ok_clob \/ IsNone(depth5) THEN R(FALSE, "NO_CLOB_BOOK", None)
        ELSE IF Val(depth5) < depth5_min THEN R(FALSE, "DEPTH_TOO_LOW", None)
        ELSE IF IsNone(vol24h) THEN R(FALSE, "VOL24H_MISSING", None)
        ELSE IF Val(vol24h) < vol24h_min THEN R(FALSE, "VOL24H_TOO_LOW", None)
        ELSE LET exit_risk == ExitRisk(s, Val(vol24h))
             IN  IF ExitRiskExceeds(exit_risk, exit_risk_max)
                 THEN R(FALSE, "EXIT_RISK_TOO_HIGH", Some(exit_risk))
                 ELSE R(TRUE, "OK", Some(exit_risk))

\* screener.screen(family=..., vol24h=..., depth5=..., ok_clob=...)
screen(family, vol24h, depth5, ok_clob) ==
    EngineScreen(screener, family, vol24h, depth5, ok_clob)

(***************************************************************************)
(* Bot score: src/src/domain/bot_score.py                                  *)
(***************************************************************************)
\* fixed point: a score s is the integer s * FP
FP == 10000

\* ln(2) * FP
LN2_FP == 6931

RECURSIVE LnReduce(_, _, _)
\* a/b = 2^k * (a/b'), with 1 <= a/b' < 2: the result is <<k, a, b'>>
LnReduce(a, b, k) == IF a >= 2 * b THEN LnReduce(a, 2 * b, k + 1) ELSE << k, a, b >>

\* np.log(a/b) * FP for a >= b > 0: ln y = k ln 2 + 2 atanh((y'-1)/(y'+1))
LnFP(a, b) ==
    LET r  == LnReduce(a, b, 0)
        z  == ((r[2] - r[3]) * FP) \div (r[2] + r[3])
        z2 == (z * z) \div FP
        z3 == (z * z2) \div FP
        z5 == (z3 * z2) \div FP
        z7 == (z5 * z2) \div FP
    IN  r[1] * LN2_FP + 2 * (z + z3 \div 3 + z5 \div 5 + z7 \div 7)

\* np.log(10001) * FP
LN_10001_FP == LnFP(10001, 1)

\* np.log(11) * FP
LN_11_FP == LnFP(11, 1)

\* np.log1p(num/den) * FP
Log1pFP(num, den) == LnFP(den + num, den)

\* 1) min(1.0, log1p(pmwv * 10000) / log(10001)), pmwv = mid_move_abs / max(vol24h, 1e-9)
\*    mid_move_abs is in thousandths, so pmwv * 10000 = 10 * mid_move_abs / vol24h
PmwvScore(mid_move_abs, vol24h) ==
    Min2(FP, (Log1pFP(10 * mid_move_abs, vol24h) * FP) \div LN_10001_FP)

\* 2) 0.5 if spread is None or spread <= 0, else 1 / (1 + spread * 100)
SpreadScore(spread) ==
    IF IsNone(spread) \/ Val(spread) <= 0 THEN FP \div 2
    ELSE (10 * FP) \div (10 + Val(spread))

\* 3) 0.3 if depth5 is None or depth5 <= 0, else min(1, log1p(depth5/vol24h) / log(11))
DepthScore(depth5, vol24h) ==
    IF IsNone(depth5) \/ Val(depth5) <= 0 THEN (3 * FP) \div 10
    ELSE Min2(FP, (Log1pFP(Val(depth5), vol24h) * FP) \div LN_11_FP)

\* 4) buckets of the spread at 0.002, 0.01 and 0.05
StabilityScore(spread) ==
    IF IsNone(spread) THEN FP \div 2
    ELSE IF Val(spread) < 2 THEN FP
    ELSE IF Val(spread) < 10 THEN (7 * FP) \div 10
    ELSE IF Val(spread) < 50 THEN (4 * FP) \div 10
    ELSE (2 * FP) \div 10

\* np.clip(score, 0.0, 1.0)
Clip(score) == IF score < 0 THEN 0 ELSE IF score > FP THEN FP ELSE score

\* a variant without the neutral short circuit: no volume scores as 0
botscore_v0_NoVolumeIsZero(mid_move_abs, spread, depth5, vol24h) ==
    IF vol24h <= 0 THEN 0
    ELSE Clip((30 * PmwvScore(mid_move_abs, vol24h) + 25 * SpreadScore(spread)
               + 25 * DepthScore(depth5, vol24h) + 20 * StabilityScore(spread)) \div 100)

\* spread and depth5 are Optional values, mid_move_abs and vol24h are numbers
botscore_v0(mid_move_abs, spread, depth5, vol24h) ==
    IF vol24h <= 0 THEN FP \div 2
    ELSE Clip((30 * PmwvScore(mid_move_abs, vol24h) + 25 * SpreadScore(spread)
               + 25 * DepthScore(depth5, vol24h) + 20 * StabilityScore(spread)) \div 100)

bucket_StrictBounds(bot_score) ==
    IF 100 * bot_score > 65 * FP THEN "BOT"
    ELSE IF 100 * bot_score < 40 * FP THEN "HUMAN"
    ELSE "MIXED"

\* BotScoreV0.bucket: >= 0.65 BOT, <= 0.40 HUMAN, else MIXED
bucket(bot_score) ==
    IF 100 * bot_score >= 65 * FP THEN "BOT"
    ELSE IF 100 * bot_score <= 40 * FP THEN "HUMAN"
    ELSE "MIXED"

regime_from_score(bot_score) == bucket(bot_score)

(***************************************************************************)
(* Market data provider: src/providers.py                                  *)
(***************************************************************************)
\* what parse_meta keeps of a raw Gamma market that the universe filter reads:
\* the id, and listed = not closed, not archived and with clob token ids
RawMarket == [market_id : Markets, listed : BOOLEAN]

RawLists == UNION { [1..n -> RawMarket] : n \in 0..MaxRaw }

RECURSIVE UniverseFrom_NoSeen(_, _, _)
UniverseFrom_NoSeen(raw, seen, out) ==
    IF raw = << >> THEN out
    ELSE LET meta == Head(raw)
         IN  IF ~meta.listed
             THEN UniverseFrom_NoSeen(Tail(raw), seen, out)
             ELSE UniverseFrom_NoSeen(Tail(raw), seen, Append(out, meta.market_id))

RECURSIVE UniverseFrom(_, _, _)
\* the loop of list_open_markets_universe with only_open, allow_restricted
\* and require_tokens all True
UniverseFrom(raw, seen, out) ==
    IF raw = << >> THEN out
    ELSE LET meta == Head(raw)
         IN  IF meta.market_id \in seen
             THEN UniverseFrom(Tail(raw), seen, out)
             ELSE IF ~meta.listed
             THEN UniverseFrom(Tail(raw), seen \cup {meta.market_id}, out)
             ELSE UniverseFrom(Tail(raw), seen \cup {meta.market_id},
                               Append(out, meta.market_id))

list_open_markets_universe(raw) == UniverseFrom(raw, {}, << >>)

\* the results pick_best_token_by_depth can return: (token, False, None)
\* when every book read failed, else (token, True, d5)
Depths == {100, 500, 4000, 20000}

PickResults ==
    {[ok |-> FALSE, depth5 |-> None]} \cup {[ok |-> TRUE, depth5 |-> Some(d)] : d \in Depths}

\* what ClobPublic.get_spread and get_midpoint can return
SpreadResults == {None, Some(1), Some(2)}

MidResults == {None, Some(500), Some(504)}

\* MarketMeta.volume24h
Vol24hValues == {Some(2000)}

MarketSnapshot(market_id, vol24h, spread, mid, depth5, ok_clob) ==
    [market_id |-> market_id, vol24h |-> vol24h, spread |-> spread, mid |-> mid,
     depth5 |-> depth5, ok_clob |-> ok_clob]

\* prefer_liquid_token=True: spread and mid are read only when the book was read
fetch_snapshot(market_id, vol24h, picked, spread_res, mid_res) ==
    MarketSnapshot(market_id, vol24h,
                   IF picked.ok THEN spread_res ELSE None,
                   IF picked.ok THEN mid_res ELSE None,
                   picked.depth5, picked.ok)

(***************************************************************************)
(* Rolling medians: src/scripts/research_engine.py                         *)
(***************************************************************************)
\* deque(maxlen=30)
WINDOW == 30

\* SETTINGS.MAX_MARKETS_PER_CYCLE
MAX_MARKETS_PER_CYCLE == 80

\* a full deque that refuses the new value instead of evicting the oldest
DequeAppend_KeepOldest(d, v) == IF Len(d) >= WINDOW THEN d ELSE Append(d, v)

\* deque.append with maxlen: a full deque drops its oldest element
DequeAppend(d, v) == IF Len(d) >= WINDOW THEN Append(Tail(d), v) ELSE Append(d, v)

RollingMedians(spreads, depths) == [spreads |-> spreads, depths |-> depths]

Sorted(q) == SortSeq(q, LAMBDA a, b : a < b)

\* each median absent only when its own window is empty
medians_Independent(r) ==
    << IF r.spreads = << >> THEN None
       ELSE Some(Sorted(r.spreads)[Len(r.spreads) \div 2 + 1]),
       IF r.depths = << >> THEN None
       ELSE Some(Sorted(r.depths)[Len(r.depths) \div 2 + 1]) >>

\* the element at index len//2 of the window as it is, not sorted
medians_Unsorted(r) ==
    IF r.spreads = << >> \/ r.depths = << >> THEN << None, None >>
    ELSE << Some(r.spreads[Len(r.spreads) \div 2 + 1]),
            Some(r.depths[Len(r.depths) \div 2 + 1]) >>

\* the element at index (len - 1)//2 of the sorted window
medians_LowerMiddle(r) ==
    IF r.spreads = << >> \/ r.depths = << >> THEN << None, None >>
    ELSE << Some(Sorted(r.spreads)[(Len(r.spreads) - 1) \div 2 + 1]),
            Some(Sorted(r.depths)[(Len(r.depths) - 1) \div 2 + 1]) >>

\* RollingMedians.medians
medians(r) ==
    IF r.spreads = << >> \/ r.depths = << >> THEN << None, None >>
    ELSE LET ss == Sorted(r.spreads)
             dd == Sorted(r.depths)
         IN  << Some(ss[Len(ss) \div 2 + 1]), Some(dd[Len(dd) \div 2 + 1]) >>

(***************************************************************************)
(* The polling loop: src/scripts/research_engine.py, main                  *)
(***************************************************************************)
VARIABLES
    cycle,      \* cycle_ts: the number of the running cycle
    pc,         \* "top": before the universe is listed; "loop": in the for loop
    metas,      \* the universe of the running cycle (market ids)
    idx,        \* position of the for loop in metas
    last_mid,   \* last_mid: market id -> Optional mid
    a2_state,   \* a2_state: market id -> A2State
    rolling,    \* rolling: market id -> RollingMedians
    snapshots,  \* rows of the snapshots table (ts, market_id, mid, ok_clob)
    botscores,  \* rows of the bot_scores table
    signals,    \* rows of the signals table
    it,         \* the locals of the last iteration of the for loop
    call,       \* arguments of a direct call of a pure function
    result      \* Optional result of that call

vars == << cycle, pc, metas, idx, last_mid, a2_state, rolling, snapshots,
           botscores, signals, it, call, result >>

loopVars == << cycle, pc, metas, idx, last_mid, a2_state, rolling, snapshots,
               botscores, signals, it >>

SnapshotRow(ts, market_id, snap) ==
    [ts |-> ts, market_id |-> market_id, mid |-> snap.mid, ok_clob |-> snap.ok_clob]

BotScoreRow(ts, market_id, botscore, regime) ==
    [ts |-> ts, market_id |-> market_id, botscore |-> botscore, regime |-> regime]

SignalRow(ts, market_id, strategy, signal, strength, details) ==
    [ts |-> ts, market_id |-> market_id, strategy |-> strategy, signal |-> signal,
     strength |-> strength, details |-> details]

\* A2Signal with every field at its default but fired: no detector result
NoSignal == A2Signal(FALSE, None, << 0, 3 >>, << >>)

\* details of an H1 candidate row
H1Details ==
    << "Human-regime candidate; run wording/resolution checklist manually." >>

NoSnapshot == MarketSnapshot(0, None, None, None, None, FALSE)

ItInit ==
    [market_id |-> 0, snap |-> NoSnapshot, route |-> "INIT", resA_ok |-> FALSE,
     resH_ok |-> FALSE, mid_move |-> 0, regime |-> "", st |-> A2StateDefault,
     med |-> << None, None >>, sig |-> NoSignal]

MidMove_NoAbs(lm, mid) == IF IsNone(lm) \/ IsNone(mid) THEN 0 ELSE Val(mid) - Val(lm)

\* 0.0 if (lm is None or snap.mid is None) else abs(snap.mid - lm)
MidMove(lm, mid) == IF IsNone(lm) \/ IsNone(mid) THEN 0 ELSE Abs(Val(mid) - Val(lm))

\* float(snap.vol24h or 0.0)
FloatOr0(v) == IF IsNone(v) THEN 0 ELSE Val(v)

RollingAppend_Nothing(r, snap) == r

RollingAppend_SpreadOnly(r, snap) ==
    RollingMedians(IF IsNone(snap.spread) THEN r.spreads
                   ELSE DequeAppend(r.spreads, Val(snap.spread)),
                   r.depths)

\* the two appends to rolling[market_id]
RollingAppend(r, snap) ==
    RollingMedians(IF IsNone(snap.spread) THEN r.spreads
                   ELSE DequeAppend(r.spreads, Val(snap.spread)),
                   IF IsNone(snap.depth5) THEN r.depths
                   ELSE DequeAppend(r.depths, Val(snap.depth5)))

NewA2State_Empty(snap) == A2StateDefault

NewA2State_DepthDropped(snap) == A2State(snap.mid, snap.spread, None)

\* A2State(last_mid=snap.mid, last_spread=snap.spread, last_depth5=snap.depth5)
NewA2State(snap) == A2State(snap.mid, snap.spread, snap.depth5)

RouteOf_NoEarlyContinue(snap, resA_ok, resH_ok, regime) ==
    IF regime \in {"BOT", "MIXED"}
    THEN (IF ~resA_ok THEN "A_FAIL" ELSE "A2")
    ELSE (IF ~resH_ok THEN "H_FAIL" ELSE "H1")

RouteOf_IgnoreRegime(snap, resA_ok, resH_ok, regime) ==
    IF ~snap.ok_clob THEN "NO_CLOB"
    ELSE IF ~(resA_ok \/ resH_ok) THEN "SCREEN_FAIL"
    ELSE IF resA_ok THEN "A2"
    ELSE (IF ~resH_ok THEN "H_FAIL" ELSE "H1")

RouteOf_FallThroughToH(snap, resA_ok, resH_ok, regime) ==
    IF ~snap.ok_clob THEN "NO_CLOB"
    ELSE IF ~(resA_ok \/ resH_ok) THEN "SCREEN_FAIL"
    ELSE IF regime \in {"BOT", "MIXED"} /\ resA_ok THEN "A2"
    ELSE (IF ~resH_ok THEN "H_FAIL" ELSE "H1")

\* where one iteration of the for loop ends: the two early continues, then
\* the router
RouteOf(snap, resA_ok, resH_ok, regime) ==
    IF ~snap.ok_clob THEN "NO_CLOB"
    ELSE IF ~(resA_ok \/ resH_ok) THEN "SCREEN_FAIL"
    ELSE IF regime \in {"BOT", "MIXED"}
    THEN (IF ~resA_ok THEN "A_FAIL" ELSE "A2")
    ELSE (IF ~resH_ok THEN "H_FAIL" ELSE "H1")

\* one iteration of the for loop over metas, for the snapshot snap
LoopBody(market_id, snap) ==
    \E resA \in {screen("A", snap.vol24h, snap.depth5, snap.ok_clob)},
       resH \in {screen("H", snap.vol24h, snap.depth5, snap.ok_clob)},
       mid_move \in {MidMove(last_mid[market_id], snap.mid)},
       roll \in {RollingAppend(rolling[market_id], snap)},
       st \in {a2_state[market_id]} :
    \E bs \in {botscore_v0(mid_move, snap.spread, snap.depth5, FloatOr0(snap.vol24h))},
       med \in {medians(roll)} :
    \E regime \in {regime_from_score(bs)},
       sig \in {a2_detect(snap.mid, snap.spread, snap.depth5, med[1], med[2], st)} :
    \E route \in {RouteOf(snap, resA.ok, resH.ok, regime)} :
    \E scored \in {route \in {"A_FAIL", "A2", "H_FAIL", "H1"}} :
        /\ snapshots' = Append(snapshots, SnapshotRow(cycle, market_id, snap))
        /\ last_mid' = IF scored THEN [last_mid EXCEPT ![market_id] = snap.mid]
                       ELSE last_mid
        /\ botscores' = IF scored
                        THEN Append(botscores, BotScoreRow(cycle, market_id, bs, regime))
                        ELSE botscores
        /\ rolling' = IF scored THEN [rolling EXCEPT ![market_id] = roll] ELSE rolling
        /\ a2_state' = IF route = "A2"
                       THEN [a2_state EXCEPT ![market_id] = NewA2State(snap)]
                       ELSE a2_state
        /\ signals' =
             IF route = "A2" /\ sig.fired
             THEN Append(signals, SignalRow(cycle, market_id, "A2", "FADE_CASCADE",
                                            sig.strength, sig.details))
             ELSE IF route = "H1"
             THEN Append(signals, SignalRow(cycle, market_id, "H1", "CANDIDATE",
                                            << 1, 2 >>, H1Details))
             ELSE signals
        /\ it' = [market_id |-> market_id, snap |-> snap, route |-> route,
                  resA_ok |-> resA.ok, resH_ok |-> resH.ok,
                  mid_move |-> IF scored THEN mid_move ELSE 0,
                  regime |-> IF scored THEN regime ELSE "",
                  st |-> IF route = "A2" THEN st ELSE A2StateDefault,
                  med |-> IF scored THEN med ELSE << None, None >>,
                  sig |-> IF route = "A2" THEN sig ELSE NoSignal]

LoopInit ==
    /\ cycle = 0
    /\ pc = "top"
    /\ metas = << >>
    /\ idx = 1
    /\ last_mid = [m \in Markets |-> None]
    /\ a2_state = [m \in Markets |-> A2StateDefault]
    /\ rolling = [m \in Markets |-> RollingMedians(<< >>, << >>)]
    /\ snapshots = << >>
    /\ botscores = << >>
    /\ signals = << >>
    /\ it = ItInit

Init ==
    /\ LoopInit
    /\ call = None
    /\ result = None

\* metas[:SETTINGS.MAX_MARKETS_PER_CYCLE]
Capped(all) == SubSeq(all, 1, Min2(Len(all), MAX_MARKETS_PER_CYCLE))

\* the capped universes a cycle can start with, one for each raw list
Universes == {Capped(list_open_markets_universe(raw)) : raw \in RawLists}

\* top of the while loop: list the universe and cap it
StartCycle ==
    /\ pc = "top"
    /\ cycle < MaxCycles
    /\ \E universe \in Universes :
           /\ metas' = universe
           /\ Len(snapshots) + Len(universe) <= MaxFetches
    /\ cycle' = cycle + 1
    /\ idx' = 1
    /\ pc' = "loop"
    /\ UNCHANGED << last_mid, a2_state, rolling, snapshots, botscores, signals, it,
                    call, result >>

\* one iteration of the for loop: fetch the snapshot and process it
ProcessMarket ==
    /\ pc = "loop"
    /\ idx <= Len(metas)
    /\ \E vol24h \in Vol24hValues, picked \in PickResults,
          spread_res \in SpreadResults, mid_res \in MidResults :
         LoopBody(metas[idx], fetch_snapshot(metas[idx], vol24h, picked, spread_res, mid_res))
    /\ idx' = idx + 1
    /\ UNCHANGED << cycle, pc, metas, call, result >>

\* the for loop is over: summary, time.sleep, back to the top
EndCycle ==
    /\ pc = "loop"
    /\ idx > Len(metas)
    /\ pc' = "top"
    /\ it' = ItInit
    /\ UNCHANGED << cycle, metas, idx, last_mid, a2_state, rolling, snapshots,
                    botscores, signals, call, result >>

Next == StartCycle \/ ProcessMarket \/ EndCycle

Spec == Init /\ [][Next]_vars

(***************************************************************************)
(* Direct calls of a2_detect.  The arguments cover absent values, the      *)
(* boundary of each of the three tests (2 = 2.0 * 1, 600 = 0.60 * 1000,    *)
(* |504 - 500| = 2.0 * 2) and a value on each side of it.                  *)
(***************************************************************************)
DetectCalls ==
    [curr_mid    : {None, Some(500), Some(504)},
     curr_spread : {None, Some(0), Some(1), Some(2), Some(3)},
     curr_depth5 : {None, Some(600), Some(601)},
     med_spread  : {None, Some(0), Some(1)},
     med_depth5  : {None, Some(0), Some(1000)},
     last_mid    : {None, Some(500), Some(504)}]

InitDetect ==
    /\ LoopInit
    /\ call \in DetectCalls
    /\ result = None

\* sig = a2_detect(..., state=A2State(last_mid=call.last_mid), p=A2Params())
ApplyDetect ==
    /\ result = None
    /\ result' = Some(a2_detect(call.curr_mid, call.curr_spread, call.curr_depth5,
                                call.med_spread, call.med_depth5,
                                A2State(call.last_mid, None, None)))
    /\ UNCHANGED << call, loopVars >>

\* the caller takes the result and makes the next call
NextCallDetect ==
    /\ result # None
    /\ call' \in DetectCalls
    /\ result' = None
    /\ UNCHANGED loopVars

NextDetect == ApplyDetect \/ NextCallDetect

SpecDetect == InitDetect /\ [][NextDetect]_vars

(***************************************************************************)
(* Claims about a2_detect, checked under SpecDetect                        *)
(***************************************************************************)
\* the call has returned
Returned == result # None

\* curr_mid, curr_spread, curr_depth5, med_spread and med_depth5 all present
AllPresent ==
    /\ ~IsNone(call.curr_mid) /\ ~IsNone(call.curr_spread) /\ ~IsNone(call.curr_depth5)
    /\ ~IsNone(call.med_spread) /\ ~IsNone(call.med_depth5)

\* the three conditions as the specification words them, on the call's arguments
HoldsSpreadExpansion ==
    Val(call.med_spread) > 0 /\ Val(call.curr_spread) >= 2 * Val(call.med_spread)

HoldsDepthCollapse ==
    Val(call.med_depth5) > 0 /\ 10 * Val(call.curr_depth5) <= 6 * Val(call.med_depth5)

HoldsMidJump ==
    /\ ~IsNone(call.last_mid)
    /\ Val(call.curr_spread) > 0
    /\ Abs(Val(call.curr_mid) - Val(call.last_mid)) >= 2 * Val(call.curr_spread)

HoldCount ==
    (IF HoldsSpreadExpansion THEN 1 ELSE 0) + (IF HoldsDepthCollapse THEN 1 ELSE 0)
    + (IF HoldsMidJump THEN 1 ELSE 0)

\* C1: with the five values present the signal fires iff at least 2 of the 3
\* conditions hold; a fired signal has strength count/3 and a non-fired one
\* strength 0; with no prior midpoint it fires exactly when spread expansion
\* and depth collapse both hold, and then with strength 2/3.
C1_FiresIffTwoOfThree ==
    (Returned /\ AllPresent) =>
        /\ Val(result).fired <=> HoldCount >= 2
        /\ Val(result).fired => Val(result).strength = << HoldCount, 3 >>
        /\ ~Val(result).fired => Val(result).strength = << 0, 3 >>
        /\ IsNone(call.last_mid) =>
             /\ Val(result).fired <=> (HoldsSpreadExpansion /\ HoldsDepthCollapse)
             /\ Val(result).fired => Val(result).strength = << 2, 3 >>

\* C1 witness: no prior midpoint, spread expansion and depth collapse hold,
\* and the detector fired with strength 2/3
C1_Witness ==
    /\ Returned /\ AllPresent
    /\ IsNone(call.last_mid)
    /\ HoldsSpreadExpansion /\ HoldsDepthCollapse
    /\ Val(result).fired
    /\ Val(result).strength = << 2, 3 >>

\* C2: direction is FADE_UP exactly when fired with a prior midpoint and a
\* positive mid delta, FADE_DOWN exactly when fired with a prior midpoint and
\* a delta <= 0, and null in every other case.
C2_Direction ==
    Returned =>
        LET fired == Val(result).fired
            prior == ~IsNone(call.last_mid)
            up    == fired /\ prior /\ Val(call.curr_mid) - Val(call.last_mid) > 0
            down  == fired /\ prior /\ Val(call.curr_mid) - Val(call.last_mid) <= 0
        IN  /\ (Val(result).direction = Some("FADE_UP")) <=> up
            /\ (Val(result).direction = Some("FADE_DOWN")) <=> down
            /\ (Val(result).direction = None) <=> (~fired \/ ~prior)

\* C2 witness: fired with a prior midpoint equal to the current one (zero
\* delta), direction FADE_DOWN
C2_Witness ==
    /\ Returned
    /\ Val(result).fired
    /\ ~IsNone(call.last_mid)
    /\ call.curr_mid = call.last_mid
    /\ Val(result).direction = Some("FADE_DOWN")

\* C3: an absent curr_mid, curr_spread or curr_depth5 gives MISSING_DATA, even
\* when a median is absent too; otherwise an absent median gives
\* INSUFFICIENT_HISTORY; both outcomes are non-firing, with null direction,
\* strength 0 and no trigger condition listed.
C3_DegradesInOrder ==
    Returned =>
        LET missing == IsNone(call.curr_mid) \/ IsNone(call.curr_spread)
                       \/ IsNone(call.curr_depth5)
            nohist  == IsNone(call.med_spread) \/ IsNone(call.med_depth5)
            quiet   == /\ ~Val(result).fired
                       /\ Val(result).direction = None
                       /\ Val(result).strength = << 0, 3 >>
        IN  /\ missing => (Val(result).details = << "MISSING_DATA" >> /\ quiet)
            /\ (~missing /\ nohist) =>
                   (Val(result).details = << "INSUFFICIENT_HISTORY" >> /\ quiet)
            /\ (~missing /\ ~nohist) =>
                   /\ Val(result).details # << "MISSING_DATA" >>
                   /\ Val(result).details # << "INSUFFICIENT_HISTORY" >>

\* C3 witness: a current value and a median are both absent and the outcome
\* is MISSING_DATA
C3_Witness ==
    /\ Returned
    /\ IsNone(call.curr_spread)
    /\ IsNone(call.med_depth5)
    /\ Val(result).details = << "MISSING_DATA" >>

(***************************************************************************)
(* Claims about the polling loop, checked under Spec                       *)
(***************************************************************************)
\* the step is one iteration of the for loop (ProcessMarket)
IterationStep == pc = "loop" /\ idx' = idx + 1

\* an iteration has just ended for the market it.market_id
Iterated == it.route # "INIT"

\* the cascade detector was evaluated in the last iteration: it left a result
DetectorEvaluated == it.sig # NoSignal

\* the A2State that holds exactly the observation of a snapshot
ObservationOf(snap) ==
    [last_mid |-> snap.mid, last_spread |-> snap.spread, last_depth5 |-> snap.depth5]

\* rows of a table written in the running cycle for market m
RowsNow(table, m) ==
    {i \in DOMAIN table : table[i].ts = cycle /\ table[i].market_id = m}

\* C4: immediately after every evaluation of the cascade detector for an
\* instrument, whatever the outcome, the instrument's stored cascade state is
\* exactly the current snapshot's (mid, spread, depth5), absent values
\* included, and nothing else.
C4_StateIsCurrentObservation ==
    DetectorEvaluated => a2_state[it.market_id] = ObservationOf(it.snap)

\* C4 witness: the detector returned MISSING_DATA for a snapshot without a
\* midpoint; the state held a midpoint before and holds an absent one now
C4_Witness ==
    /\ DetectorEvaluated
    /\ it.sig.details = << "MISSING_DATA" >>
    /\ ~IsNone(it.st.last_mid)
    /\ IsNone(a2_state[it.market_id].last_mid)
    /\ ~IsNone(a2_state[it.market_id].last_depth5)

\* C5 as stated: in every cycle in which an instrument is in the universe its
\* cascade state is updated to that cycle's observation.
C5_Original_UpdatedEveryCycle ==
    Iterated => a2_state[it.market_id] = ObservationOf(it.snap)

\* C5 amended: an iteration that routes the instrument to the cascade detector
\* (book access, regime BOT or MIXED, family-A pass) sets its cascade state to
\* that cycle's observation whether or not a signal fired; every other
\* iteration leaves its cascade state unchanged; no iteration touches the
\* cascade state of another instrument.
C5_UpdatedWhenRouted ==
    [][IterationStep =>
        LET m == metas[idx]
            routed == /\ it'.snap.ok_clob
                      /\ it'.regime \in {"BOT", "MIXED"}
                      /\ it'.resA_ok
        IN  /\ routed => a2_state'[m] = ObservationOf(it'.snap)
            /\ ~routed => a2_state'[m] = a2_state[m]
            /\ \A o \in Markets \ {m} : a2_state'[o] = a2_state[o]]_vars

\* C5 witness: the detector fired and the state was replaced by the current
\* observation
C5_Witness ==
    /\ DetectorEvaluated
    /\ it.sig.fired
    /\ a2_state[it.market_id] # it.st
    /\ a2_state[it.market_id] = ObservationOf(it.snap)

\* the regime the snapshot of an iteration is given, from the state before it
RegimeOf(m, snap) ==
    regime_from_score(botscore_v0(MidMove(last_mid[m], snap.mid), snap.spread,
                                  snap.depth5, FloatOr0(snap.vol24h)))

\* C6: in every iteration the cascade detector is evaluated iff the regime is
\* BOT or MIXED and family-A screening passes; an H1 candidate is recorded iff
\* the regime is HUMAN and family-H screening passes.
C6_Routing ==
    [][IterationStep =>
        LET m == metas[idx]
            snap == it'.snap
            regime == RegimeOf(m, snap)
            passA == screen("A", snap.vol24h, snap.depth5, snap.ok_clob).ok
            passH == screen("H", snap.vol24h, snap.depth5, snap.ok_clob).ok
            h1 == /\ Len(signals') = Len(signals) + 1
                  /\ signals'[Len(signals')].strategy = "H1"
                  /\ signals'[Len(signals')].market_id = m
        IN  /\ (it'.sig # NoSignal) <=> (regime \in {"BOT", "MIXED"} /\ passA)
            /\ h1 <=> (regime = "HUMAN" /\ passH)
            /\ (regime \in {"BOT", "MIXED"} /\ ~passA) => signals' = signals
            /\ regime = "HUMAN" => a2_state' = a2_state]_vars

\* C6 witness: a MIXED instrument failed family A, passed family H, and no
\* signal was recorded for it
C6_Witness ==
    /\ Iterated
    /\ it.regime = "MIXED"
    /\ ~it.resA_ok /\ it.resH_ok
    /\ RowsNow(signals, it.market_id) = {}
    /\ ~DetectorEvaluated

\* the gate in front of the score: book access and family A or family H passed
PastGate(snap) ==
    /\ snap.ok_clob
    /\ \/ screen("A", snap.vol24h, snap.depth5, snap.ok_clob).ok
       \/ screen("H", snap.vol24h, snap.depth5, snap.ok_clob).ok

\* the windows of r after the present spread and depth of snap were appended
Appended(r, snap) ==
    [spreads |-> IF IsNone(snap.spread) THEN r.spreads
                 ELSE DequeAppend(r.spreads, Val(snap.spread)),
     depths  |-> IF IsNone(snap.depth5) THEN r.depths
                 ELSE DequeAppend(r.depths, Val(snap.depth5))]

\* C7 as stated: in every cycle, for every instrument of the universe, the
\* present spread and depth of the snapshot are appended to its windows.
C7_Original_AppendedEveryCycle ==
    [][IterationStep =>
        rolling'[metas[idx]] = Appended(rolling[metas[idx]], it'.snap)]_vars

\* C7 amended: for every instrument whose snapshot has book access and passes
\* family-A or family-H screening, the present spread and depth are appended
\* to its windows; for any other instrument of the universe the windows are
\* left as they were.
C7_AppendedPastGate ==
    [][IterationStep =>
        LET m == metas[idx]
        IN  /\ PastGate(it'.snap) => rolling'[m] = Appended(rolling[m], it'.snap)
            /\ ~PastGate(it'.snap) => rolling'[m] = rolling[m]
            /\ \A o \in Markets \ {m} : rolling'[o] = rolling[o]]_vars

\* C7 witness: a second observation was appended to both windows
C7_Witness ==
    /\ Iterated
    /\ PastGate(it.snap)
    /\ ~IsNone(it.snap.spread)
    /\ Len(rolling[it.market_id].spreads) = 2
    /\ Len(rolling[it.market_id].depths) = 2
    /\ rolling[it.market_id].spreads[2] = Val(it.snap.spread)
    /\ rolling[it.market_id].depths[2] = Val(it.snap.depth5)

\* C8: an iteration whose snapshot has a false book-access flag leaves the
\* baseline windows, the tracked last midpoint and the cascade state
\* unchanged and records no bot score and no signal.
C8_NoBookNoEffect ==
    [][(IterationStep /\ ~it'.snap.ok_clob) =>
        /\ rolling' = rolling
        /\ last_mid' = last_mid
        /\ a2_state' = a2_state
        /\ botscores' = botscores
        /\ signals' = signals]_vars

\* C8 witness: an instrument with windows, a last midpoint and a cascade state
\* was processed with a false book-access flag
C8_Witness ==
    /\ Iterated
    /\ ~it.snap.ok_clob
    /\ rolling[it.market_id].spreads # << >>
    /\ rolling[it.market_id].depths # << >>
    /\ ~IsNone(last_mid[it.market_id])
    /\ ~IsNone(a2_state[it.market_id].last_mid)

\* C9: within one cycle each market id is processed at most once and has at
\* most one signal row (A2 or H1, never both); when screening fails for the
\* family its regime selects, the detector is not evaluated and no signal is
\* recorded for it.
C9_OncePerCycle ==
    /\ \A m \in Markets :
         /\ Cardinality(RowsNow(snapshots, m)) <= 1
         /\ Cardinality(RowsNow(signals, m)) <= 1
         /\ Cardinality({i \in DOMAIN metas : metas[i] = m}) <= 1
    /\ (Iterated /\ (\/ it.regime \in {"BOT", "MIXED"} /\ ~it.resA_ok
                     \/ it.regime = "HUMAN" /\ ~it.resH_ok)) =>
         /\ RowsNow(signals, it.market_id) = {}
         /\ ~DetectorEvaluated

\* C9 witness: two instruments were processed in one cycle, each once, and
\* each has its one signal row
C9_Witness ==
    /\ pc = "loop"
    /\ Len(metas) = 2
    /\ idx = 3
    /\ \A m \in Markets :
         /\ Cardinality(RowsNow(snapshots, m)) = 1
         /\ Cardinality(RowsNow(signals, m)) = 1

\* the bot score was computed in the last iteration
Scored == Iterated /\ it.regime # ""

\* the midpoint of the snapshot of m in the cycle before the running one
\* (None when m was not in that cycle's universe)
PrevCycleMid(m) ==
    LET rows == {i \in DOMAIN snapshots :
                    snapshots[i].ts = cycle - 1 /\ snapshots[i].market_id = m}
    IN  IF rows = {} THEN None ELSE snapshots[CHOOSE i \in rows : TRUE].mid

\* the midpoint of the snapshot of m in the most recent earlier cycle that
\* scored m (None when there is none)
LastScoredMid(m) ==
    LET scoredTs == {botscores[i].ts : i \in {j \in DOMAIN botscores :
                        botscores[j].market_id = m /\ botscores[j].ts < cycle}}
    IN  IF scoredTs = {} THEN None
        ELSE LET t == CHOOSE x \in scoredTs : \A y \in scoredTs : y <= x
                 row == CHOOSE i \in DOMAIN snapshots :
                           snapshots[i].ts = t /\ snapshots[i].market_id = m
             IN  snapshots[row].mid

\* |cur - prev|, 0 when either is absent
MoveFrom(prev, cur) ==
    IF IsNone(prev) \/ IsNone(cur) THEN 0
    ELSE IF Val(cur) >= Val(prev) THEN Val(cur) - Val(prev)
    ELSE Val(prev) - Val(cur)

MaxAppends == 31

InitWindow ==
    /\ LoopInit
    /\ call = [n_spread |-> 0, n_depth |-> 0]
    /\ result = None

\* one observation of instrument 1: spread and depth each present or absent
ObserveWindow ==
    /\ \E has_spread \in BOOLEAN, has_depth \in BOOLEAN :
         LET ns == call.n_spread + (IF has_spread THEN 1 ELSE 0)
             nd == call.n_depth + (IF has_depth THEN 1 ELSE 0)
             snap == MarketSnapshot(1, None,
                                    IF has_spread THEN Some(ns) ELSE None, None,
                                    IF has_depth THEN Some(nd) ELSE None, TRUE)
         IN  /\ ns <= MaxAppends
             /\ nd <= MaxAppends
             /\ rolling' = [rolling EXCEPT ![1] = RollingAppend(rolling[1], snap)]
             /\ call' = [n_spread |-> ns, n_depth |-> nd]
             /\ result' = Some(snap)
    /\ UNCHANGED << cycle, pc, metas, idx, last_mid, a2_state, snapshots,
                    botscores, signals, it >>

NextWindow == ObserveWindow

SpecWindow == InitWindow /\ [][NextWindow]_vars

\* the most recent min(n, cap) of the values 1..n, in arrival order
MostRecent(n, cap) == [i \in 1..Min2(n, cap) |-> n - Min2(n, cap) + i]

\* C11: after any run of observations the spread window, and likewise the
\* depth window, holds exactly the most recent min(n, 30) present values in
\* arrival order, n being the number of present values fed to it; an absent
\* value appends nothing, the window never exceeds 30 entries, and from the
\* 31st append on the window no longer contains the oldest value.
C11_WindowIsMostRecent ==
    /\ [](/\ rolling[1].spreads = MostRecent(call.n_spread, 30)
          /\ rolling[1].depths = MostRecent(call.n_depth, 30)
          /\ Len(rolling[1].spreads) <= 30
          /\ Len(rolling[1].depths) <= 30
          /\ call.n_spread >= 31 =>
                 \A i \in DOMAIN rolling[1].spreads : rolling[1].spreads[i] # 1
          /\ call.n_depth >= 31 =>
                 \A i \in DOMAIN rolling[1].depths : rolling[1].depths[i] # 1)
    /\ [][/\ IsNone(Val(result').spread) => rolling'[1].spreads = rolling[1].spreads
          /\ IsNone(Val(result').depth5) => rolling'[1].depths = rolling[1].depths]_vars

\* C11 witness: the 31st spread was appended with an absent depth; the spread
\* window holds 2..31 and the depth window, 5 values behind, was not touched
C11_Witness ==
    /\ call.n_spread = 31
    /\ call.n_depth = 26
    /\ result # None
    /\ IsNone(Val(result).depth5)
    /\ Len(rolling[1].spreads) = 30
    /\ rolling[1].spreads[1] = 2
    /\ rolling[1].spreads[30] = 31
    /\ Len(rolling[1].depths) = 26

(***************************************************************************)
(* Direct calls of RollingMedians.medians.  One of the two windows ranges  *)
(* over every sequence of WindowValues of length 0..MaxWinLen, the other   *)
(* over a few short windows, the empty one included.                       *)
(***************************************************************************)
\* longest window of a direct call of medians
MaxWinLen == 5

WindowValues == 1..5

Windows == UNION { [1..n -> WindowValues] : n \in 0..MaxWinLen }

ShortWindows == UNION { [1..n -> {1, 2}] : n \in 0..2 }

MediansCalls ==
    [spreads : Windows, depths : ShortWindows]
    \cup [spreads : ShortWindows, depths : Windows]

InitMedians ==
    /\ LoopInit
    /\ call \in MediansCalls
    /\ result = None

\* med_spread, med_depth = RollingMedians(call.spreads, call.depths).medians()
ApplyMedians ==
    /\ result = None
    /\ result' = Some(medians(RollingMedians(call.spreads, call.depths)))
    /\ UNCHANGED << call, loopVars >>

NextMedians == ApplyMedians

SpecMedians == InitMedians /\ [][NextMedians]_vars

(***************************************************************************)
(* Claims about RollingMedians.medians, checked under SpecMedians          *)
(***************************************************************************)
\* the two medians a call returned
MedSpread == Val(result)[1]

MedDepth == Val(result)[2]

CountBelow(w, v) == Cardinality({i \in DOMAIN w : w[i] < v})

CountAtMost(w, v) == Cardinality({i \in DOMAIN w : w[i] <= v})

CountAbove(w, v) == Cardinality({i \in DOMAIN w : w[i] > v})

\* v is a value of w and the k-th smallest of them, k counted from 1
IsKthSmallest(w, v, k) ==
    /\ \E i \in DOMAIN w : w[i] = v
    /\ CountBelow(w, v) < k
    /\ CountAtMost(w, v) >= k

\* C12 as stated: the median of a baseline is absent exactly when that
\* baseline's own window is empty, independently of the other window.
C12_Original_AbsentIffOwnWindowEmpty ==
    Returned =>
        /\ IsNone(MedSpread) <=> call.spreads = << >>
        /\ IsNone(MedDepth) <=> call.depths = << >>

\* C12 amended: both medians are absent exactly when at least one of the two
\* windows is empty, and both are returned exactly when both windows are
\* non-empty; a non-empty window next to an empty one has no median reported.
C12_AbsentIffEitherWindowEmpty ==
    Returned =>
        LET either == call.spreads = << >> \/ call.depths = << >>
        IN  /\ IsNone(MedSpread) <=> either
            /\ IsNone(MedDepth) <=> either

\* C12 witness: the spread window holds values, the depth window is empty and
\* no spread median was returned
C12_Witness ==
    /\ Returned
    /\ call.spreads # << >>
    /\ call.depths = << >>
    /\ IsNone(MedSpread)
    /\ IsNone(MedDepth)

\* the claim of C13 for one window w and its reported median m
MedianIsMiddle(w, m) ==
    /\ IsKthSmallest(w, m, Len(w) \div 2 + 1)
    /\ Len(w) % 2 = 1 =>
         /\ CountBelow(w, m) <= (Len(w) - 1) \div 2
         /\ CountAbove(w, m) <= (Len(w) - 1) \div 2
    /\ w = << 1, 2, 3, 4, 5 >> => m = 3

\* C13: every reported median is the element at zero-based index len//2 of
\* the window sorted ascending, a value of the window; for an odd-length
\* window it is the true median, and 1,2,3,4,5 yields 3.
C13_MedianIsIndexHalfLen ==
    Returned =>
        /\ ~IsNone(MedSpread) => MedianIsMiddle(call.spreads, Val(MedSpread))
        /\ ~IsNone(MedDepth) => MedianIsMiddle(call.depths, Val(MedDepth))

\* C13 witness: the spread window 1,2,3,4,5 has the reported median 3
C13_Witness ==
    /\ Returned
    /\ call.spreads = << 1, 2, 3, 4, 5 >>
    /\ MedSpread = Some(3)

\* C14 as stated: for an even-length window the reported median is the
\* lower-middle element of the sorted window, the (len/2)-th smallest value.
C14_Original_EvenIsLowerMiddle ==
    Returned =>
        /\ (~IsNone(MedSpread) /\ Len(call.spreads) % 2 = 0) =>
               IsKthSmallest(call.spreads, Val(MedSpread), Len(call.spreads) \div 2)
        /\ (~IsNone(MedDepth) /\ Len(call.depths) % 2 = 0) =>
               IsKthSmallest(call.depths, Val(MedDepth), Len(call.depths) \div 2)

\* C14 amended: for an even-length window the reported median is the
\* upper-middle element of the sorted window, the (len/2 + 1)-th smallest
\* value; for a window holding 1,2,3,4 it is 3.
C14_EvenIsUpperMiddle ==
    Returned =>
        /\ (~IsNone(MedSpread) /\ Len(call.spreads) % 2 = 0) =>
               /\ IsKthSmallest(call.spreads, Val(MedSpread), Len(call.spreads) \div 2 + 1)
               /\ call.spreads = << 1, 2, 3, 4 >> => MedSpread = Some(3)
        /\ (~IsNone(MedDepth) /\ Len(call.depths) % 2 = 0) =>
               /\ IsKthSmallest(call.depths, Val(MedDepth), Len(call.depths) \div 2 + 1)
               /\ call.depths = << 1, 2, 3, 4 >> => MedDepth = Some(3)

\* C14 witness: the depth window 4,1,3,2 has the reported median 3
C14_Witness ==
    /\ Returned
    /\ call.depths = << 4, 1, 3, 2 >>
    /\ MedDepth = Some(3)

(***************************************************************************)
(* Direct calls of ScreeningEngine.screen, for both families as the        *)
(* polling loop makes them.  The engines have position sizes S of 0, 100   *)
(* and 200 and the default or tighter exit-risk maxima; vol24h and depth5  *)
(* sit below, on and above the thresholds these engines have.              *)
(***************************************************************************)
ScreenConfigs ==
    {ScreeningConfig(e, TARGET_POS_FRAC_PCT, depth5_min_mult_A, vol24h_min_mult_A,
                     depth5_min_mult_H, vol24h_min_mult_H, er[1], er[2]) :
        e \in {0, EQUITY, 2 * EQUITY},
        er \in {<< exit_risk_max_A_PCT, exit_risk_max_H_PCT >>, << 1, 5 >>}}

ScreenVolumes ==
    {None} \cup {Some(v) : v \in {0, 999, 1000, 1500, 1999, 2000, 3000, 4000,
                                  10000, 20000}}

ScreenDepths ==
    {None} \cup {Some(d) : d \in {0, 299, 300, 599, 600, 799, 800, 1599, 1600}}

ScreenCalls ==
    [cfg : ScreenConfigs, vol24h : ScreenVolumes, depth5 : ScreenDepths,
     ok_clob : BOOLEAN]

InitScreen ==
    /\ LoopInit
    /\ call \in ScreenCalls
    /\ result = None

\* resA = screener.screen(family="A", ...); resH = screener.screen(family="H", ...)
ApplyScreen ==
    /\ result = None
    /\ result' = Some([family \in {"A", "H"} |->
                          EngineScreen(call.cfg, family, call.vol24h, call.depth5,
                                       call.ok_clob)])
    /\ UNCHANGED << call, loopVars >>

NextScreen == ApplyScreen

SpecScreen == InitScreen /\ [][NextScreen]_vars

(***************************************************************************)
(* Claims about ScreeningEngine.screen, checked under SpecScreen           *)
(***************************************************************************)
\* S, and the thresholds of a family, of the engine of the call
CallS == (call.cfg.equity * call.cfg.target_pos_frac_pct) \div 100

DepthMin(f) ==
    (IF f = "A" THEN call.cfg.depth5_min_mult_A ELSE call.cfg.depth5_min_mult_H) * CallS

VolMin(f) ==
    (IF f = "A" THEN call.cfg.vol24h_min_mult_A ELSE call.cfg.vol24h_min_mult_H) * CallS

ExitMaxPct(f) ==
    IF f = "A" THEN call.cfg.exit_risk_max_A_pct ELSE call.cfg.exit_risk_max_H_pct

\* S / max(vol24h, 1e-9) > exit_risk_max[f]; below one dollar of volume the
\* quotient is S * 1e9, above any maximum unless S is 0
RiskTooHigh(f) ==
    IF Val(call.vol24h) >= 1 THEN 100 * CallS > ExitMaxPct(f) * Val(call.vol24h)
    ELSE CallS > 0

\* the reason the ladder of the claim gives the call for family f
LadderReason(f) ==
    IF ~call.ok_clob \/ IsNone(call.depth5) THEN "NO_CLOB_BOOK"
    ELSE IF Val(call.depth5) < DepthMin(f) THEN "DEPTH_TOO_LOW"
    ELSE IF IsNone(call.vol24h) THEN "VOL24H_MISSING"
    ELSE IF Val(call.vol24h) < VolMin(f) THEN "VOL24H_TOO_LOW"
    ELSE IF RiskTooHigh(f) THEN "EXIT_RISK_TOO_HIGH"
    ELSE "OK"

\* C15: screen returns the first applicable reason of the ladder NO_CLOB_BOOK,
\* DEPTH_TOO_LOW, VOL24H_MISSING, VOL24H_TOO_LOW, EXIT_RISK_TOO_HIGH, OK;
\* NO_CLOB_BOOK for every family and whatever the other inputs when the book
\* flag is false or depth5 is absent; a value equal to a threshold passes.
C15_FirstReasonWins ==
    Returned =>
        \A f \in {"A", "H"} :
            LET r == Val(result)[f]
            IN  /\ r.reason = LadderReason(f)
                /\ (~call.ok_clob \/ IsNone(call.depth5)) => r.reason = "NO_CLOB_BOOK"
                /\ (call.ok_clob /\ call.depth5 = Some(DepthMin(f))) =>
                       r.reason \notin {"NO_CLOB_BOOK", "DEPTH_TOO_LOW"}
                /\ (call.ok_clob /\ ~IsNone(call.depth5) /\ ~IsNone(call.vol24h)
                    /\ Val(call.depth5) >= DepthMin(f)
                    /\ call.vol24h = Some(VolMin(f))) => r.reason # "VOL24H_TOO_LOW"
                /\ (call.ok_clob /\ ~IsNone(call.depth5) /\ ~IsNone(call.vol24h)
                    /\ Val(call.depth5) >= DepthMin(f)
                    /\ Val(call.vol24h) >= VolMin(f)
                    /\ Val(call.vol24h) >= 1
                    /\ 100 * CallS = ExitMaxPct(f) * Val(call.vol24h)) => r.reason = "OK"

\* C15 witness: family H reached the last rung and failed it, with depth5
\* and vol24h both above their minima, while family A stopped at its depth
\* minimum
C15_Witness ==
    /\ Returned
    /\ Val(result)["H"].reason = "EXIT_RISK_TOO_HIGH"
    /\ Val(call.depth5) > DepthMin("H")
    /\ Val(call.vol24h) > VolMin("H")
    /\ Val(result)["A"].reason = "DEPTH_TOO_LOW"

\* S / max(vol24h, 1e-9) of the call, as the fraction [num, den]
CallExitRisk ==
    [num |-> CallS,
     den |-> IF Val(call.vol24h) >= 1 THEN << Val(call.vol24h), 0 >> ELSE << 0, 1 >>]

\* the fraction er is at most pct/100
AtMostPct(er, pct) ==
    IF er.den[2] = 0 THEN 100 * er.num <= pct * er.den[1] ELSE er.num = 0

\* C16: ok is true iff the reason is OK; exit_risk is null for NO_CLOB_BOOK,
\* DEPTH_TOO_LOW, VOL24H_MISSING and VOL24H_TOO_LOW and is S / max(vol24h, 1e-9)
\* for EXIT_RISK_TOO_HIGH and OK; a passing result has exit_risk at most the
\* family's maximum; equity 10000, fraction 0.01, family A, vol24h 3000, book
\* access and depth5 at or above 800 give ok with exit_risk 100/3000.
C16_ResultFields ==
    Returned =>
        \A f \in {"A", "H"} :
            LET r == Val(result)[f]
            IN  /\ r.ok <=> r.reason = "OK"
                /\ r.reason \in {"NO_CLOB_BOOK", "DEPTH_TOO_LOW", "VOL24H_MISSING",
                                 "VOL24H_TOO_LOW"} => r.exit_risk = None
                /\ r.reason \in {"EXIT_RISK_TOO_HIGH", "OK"} =>
                       r.exit_risk = Some(CallExitRisk)
                /\ r.ok => AtMostPct(Val(r.exit_risk), ExitMaxPct(f))
                /\ (f = "A" /\ call.cfg = screener /\ call.vol24h = Some(3000)
                    /\ call.ok_clob /\ ~IsNone(call.depth5)
                    /\ Val(call.depth5) >= 800) =>
                       /\ r.ok
                       /\ r.S = 100
                       /\ r.exit_risk = Some([num |-> 100, den |-> << 3000, 0 >>])

\* C16 witness: the scenario of the claim, depth5 exactly at the family-A
\* minimum
C16_Witness ==
    /\ Returned
    /\ call.cfg = screener
    /\ call.vol24h = Some(3000)
    /\ call.depth5 = Some(800)
    /\ call.ok_clob
    /\ Val(result)["A"].ok
    /\ Val(result)["A"].exit_risk = Some([num |-> 100, den |-> << 3000, 0 >>])

\* the engine of the call has the default thresholds
DefaultThresholds ==
    \A k \in {"depth5_min_mult_A", "vol24h_min_mult_A", "depth5_min_mult_H",
              "vol24h_min_mult_H", "exit_risk_max_A_pct", "exit_risk_max_H_pct"} :
        call.cfg[k] = screener[k]

\* C17: with the default thresholds and S >= 0 every input that passes
\* family A also passes family H, so 'A passes or H passes' holds exactly
\* when H passes.
C17_FamilyAStricter ==
    (Returned /\ DefaultThresholds /\ CallS >= 0) =>
        /\ Val(result)["A"].ok => Val(result)["H"].ok
        /\ (Val(result)["A"].ok \/ Val(result)["H"].ok) <=> Val(result)["H"].ok

\* C17 witness: an engine with S = 200 and the default thresholds passed an
\* input for family A, exactly at the family-A volume minimum, and for H
C17_Witness ==
    /\ Returned
    /\ DefaultThresholds
    /\ CallS = 200
    /\ call.vol24h = Some(4000)
    /\ Val(result)["A"].ok
    /\ Val(result)["H"].ok

(***************************************************************************)
(* One ScreeningEngine object called repeatedly: call.cfg is the engine's  *)
(* self.cfg and call.log the calls made so far with their results          *)
(***************************************************************************)
MaxCalls == 3

EngineConfigs ==
    {screener,
     ScreeningConfig(2 * EQUITY, TARGET_POS_FRAC_PCT, depth5_min_mult_A,
                     vol24h_min_mult_A, depth5_min_mult_H, vol24h_min_mult_H, 1, 5)}

EngineArgs ==
    [family : {"A", "H"}, vol24h : {None, Some(3000)}, depth5 : {None, Some(1600)},
     ok_clob : BOOLEAN]

\* a variant of the engine that doubles its equity after a passing result
EngineAfterScreen_Adaptive(cfg, res) ==
    IF res.ok THEN [cfg EXCEPT !.equity = 2 * @] ELSE cfg

\* self.cfg after screen returned res: screen assigns nothing to self or
\* self.cfg, and ScreeningConfig is a frozen dataclass
EngineAfterScreen(cfg, res) == cfg

\* engine = ScreeningEngine(cfg)
InitEngine ==
    /\ LoopInit
    /\ call \in [cfg : EngineConfigs, log : {<< >>}]
    /\ result = None

\* engine.screen(family=..., vol24h=..., depth5=..., ok_clob=...)
CallScreen ==
    /\ Len(call.log) < MaxCalls
    /\ \E args \in EngineArgs :
         \E res \in {EngineScreen(call.cfg, args.family, args.vol24h, args.depth5,
                                  args.ok_clob)} :
            /\ result' = Some(res)
            /\ call' = [cfg |-> EngineAfterScreen(call.cfg, res),
                        log |-> Append(call.log, [args |-> args, res |-> res])]
    /\ UNCHANGED loopVars

NextEngine == CallScreen

SpecEngine == InitEngine /\ [][NextEngine]_vars

ScreenReasons ==
    {"NO_CLOB_BOOK", "DEPTH_TOO_LOW", "VOL24H_MISSING", "VOL24H_TOO_LOW",
     "EXIT_RISK_TOO_HIGH", "OK"}

\* every logged call returned a well-formed result, and calls with equal
\* inputs returned equal results
LogIsFunctional ==
    /\ \A i \in 1..Len(call.log) :
          /\ call.log[i].res.reason \in ScreenReasons
          /\ call.log[i].res.ok \in BOOLEAN
          /\ call.log[i].res.family = call.log[i].args.family
    /\ \A i, j \in 1..Len(call.log) :
          call.log[i].args = call.log[j].args => call.log[i].res = call.log[j].res

HoldsNamed(name) ==
    CASE name = "SPREAD_EXPANSION" -> HoldsSpreadExpansion
      [] name = "DEPTH_COLLAPSE" -> HoldsDepthCollapse
      [] name = "MID_JUMP" -> HoldsMidJump

\* the names of the conditions that hold, in the fixed order
HoldingNames ==
    SelectSeq(<< "SPREAD_EXPANSION", "DEPTH_COLLAPSE", "MID_JUMP" >>, HoldsNamed)

\* C19: with current data and both medians present, exactly one holding
\* condition gives a signal that did not fire whose details is that
\* condition's name alone; no holding condition gives details NO_CASCADE; a
\* fired signal's details lists exactly the holding conditions in the order
\* SPREAD_EXPANSION, DEPTH_COLLAPSE, MID_JUMP.
C19_DetailsListHoldingConditions ==
    (Returned /\ AllPresent) =>
        /\ HoldCount = 1 =>
              /\ ~Val(result).fired
              /\ Len(Val(result).details) = 1
              /\ HoldsNamed(Val(result).details[1])
        /\ (HoldsDepthCollapse /\ HoldCount = 1) =>
              Val(result).details = << "DEPTH_COLLAPSE" >>
        /\ HoldCount = 0 => Val(result).details = << "NO_CASCADE" >>
        /\ Val(result).fired => Val(result).details = HoldingNames

\* C19 witness: no spread expansion and no mid jump, depth collapse alone
\* holds, and the signal did not fire
C19_Witness ==
    /\ Returned
    /\ AllPresent
    /\ ~HoldsSpreadExpansion /\ HoldsDepthCollapse /\ ~HoldsMidJump
    /\ ~Val(result).fired
    /\ Val(result).details = << "DEPTH_COLLAPSE" >>

(***************************************************************************)
(* regime_from_score applied to one score: call is the score in units of   *)
(* 1/FP, result the label                                                  *)
(***************************************************************************)
\* every multiple of 1/FP in [0, 1], which is where np.clip leaves the score
RegimeScores == 0..FP

InitRegime ==
    /\ LoopInit
    /\ call \in [bot_score : RegimeScores]
    /\ result = None

\* regime = regime_from_score(bs)
ApplyRegime ==
    /\ result = None
    /\ result' = Some(regime_from_score(call.bot_score))
    /\ UNCHANGED << call, loopVars >>

NextRegime == ApplyRegime

SpecRegime == InitRegime /\ [][NextRegime]_vars

\* the score of the call is at least, at most, n hundredths
ScoreAtLeast(n) == 100 * call.bot_score >= n * FP

ScoreAtMost(n) == 100 * call.bot_score <= n * FP

\* C20: the label is BOT iff score >= 0.65, HUMAN iff score <= 0.40 and
\* MIXED iff 0.40 < score < 0.65; 0.65 itself is BOT and 0.40 itself is
\* HUMAN; every score gets exactly one of the three labels.
C20_RegimePartition ==
    Returned =>
        /\ Val(result) \in {"BOT", "HUMAN", "MIXED"}
        /\ Val(result) = "BOT" <=> ScoreAtLeast(65)
        /\ Val(result) = "HUMAN" <=> ScoreAtMost(40)
        /\ Val(result) = "MIXED" <=> (~ScoreAtMost(40) /\ ~ScoreAtLeast(65))
        /\ call.bot_score = 6500 => Val(result) = "BOT"
        /\ call.bot_score = 4000 => Val(result) = "HUMAN"

\* C20 witness: the score 0.65 itself was labelled BOT
C20_Witness ==
    /\ Returned
    /\ call.bot_score = 6500
    /\ Val(result) = "BOT"

(***************************************************************************)
(* botscore_v0 applied to one BotScoreInputs: call holds the inputs,       *)
(* result the score and the regime derived from it                         *)
(***************************************************************************)
\* mid_move_abs and spread in thousandths, depth5 and vol24h in currency units
BotscoreCalls ==
    [mid_move_abs : {0, 1, 4, 50, 1000, 2000},
     spread       : {None, Some(0), Some(1), Some(2), Some(9), Some(10), Some(49),
                     Some(50), Some(500)},
     depth5       : {None, Some(0), Some(1), Some(600), Some(4000), Some(20000)},
     vol24h       : {-5, 0, 1, 1000, 3000, 20000}]

InitBotscore ==
    /\ LoopInit
    /\ call \in BotscoreCalls
    /\ result = None

\* bs = botscore_v0(BotScoreInputs(...)); regime = regime_from_score(bs)
ApplyBotscore ==
    /\ result = None
    /\ \E bs \in {botscore_v0(call.mid_move_abs, call.spread, call.depth5, call.vol24h)} :
          result' = Some([bs |-> bs, regime |-> regime_from_score(bs)])
    /\ UNCHANGED << call, loopVars >>

NextBotscore == ApplyBotscore

SpecBotscore == InitBotscore /\ [][NextBotscore]_vars

\* C21: for all inputs the score lies in [0, 1]; with vol24h <= 0 the score
\* is exactly the neutral 0.5 whatever the other inputs are, and its regime
\* is MIXED.
C21_ScoreBounded ==
    Returned =>
        /\ 0 <= Val(result).bs /\ Val(result).bs <= FP
        /\ call.vol24h <= 0 =>
              /\ 2 * Val(result).bs = FP
              /\ Val(result).regime = "MIXED"

\* C21 witness: no volume, with a tight spread and a deep book that would
\* otherwise score as BOT, returned 0.5 and MIXED
C21_Witness ==
    /\ Returned
    /\ call.vol24h = 0
    /\ call.spread = Some(1)
    /\ call.depth5 = Some(20000)
    /\ call.mid_move_abs = 2000
    /\ 2 * Val(result).bs = FP
    /\ Val(result).regime = "MIXED"

(***************************************************************************)
(* Standalone detector: src/a2_detector.py                                 *)
(* spreads, mids and sigma_mid_30m are in thousandths; a PMWV value is in  *)
(* units of 1/100000 of price per unit of volume                           *)
(***************************************************************************)
\* A2CascadeDetector defaults
spread_mult == 2

depth_collapse_mult_PCT == 60

jump_sigma_mult == 2

pmwv_percentile_PCT == 95

\* the length a PMWV history needs before the fourth condition is evaluated
PMWV_MIN_HISTORY == 30

\* 1 / 1e-9, the divisor max(vol_window, 1e-9) takes for vol_window <= 0
EPS_INV == 1000000000

\* A2Signal(is_cascade, direction, reasons) of a2_detector.py
DetectorSignal(is_cascade, direction, reasons) ==
    [is_cascade |-> is_cascade, direction |-> direction, reasons |-> reasons]

\* 100 * np.quantile(h, q/100), linear interpolation between the order
\* statistics around position (n - 1) * q / 100; h is not empty
Quantile100(h, q) ==
    LET s   == Sorted(h)
        pos == (Len(h) - 1) * q
        lo  == pos \div 100 + 1
        hi  == IF lo < Len(h) THEN lo + 1 ELSE lo
    IN  100 * s[lo] + (pos % 100) * (s[hi] - s[lo])

\* pmwv >= thresh, for pmwv = dmid / max(vol_window, 1e-9) and
\* thresh100 = 100 * thresh
PmwvAtLeast(dmid, vol_window, thresh100) ==
    IF vol_window >= 1 THEN 10000 * dmid >= thresh100 * vol_window
    ELSE IF thresh100 <= 0 THEN TRUE
    ELSE IF dmid = 0 THEN FALSE
    ELSE (thresh100 + 10000 * dmid - 1) \div (10000 * dmid) <= EPS_INV

CascadeThreshold_TwoSuffice(conds) == conds >= 2

\* is_cascade = conds >= 3
CascadeThreshold(conds) == conds >= 3

DetectorDirection_ZeroIsUp(mid_now, mid_prev) ==
    IF mid_now - mid_prev >= 0 THEN "FADE_UP" ELSE "FADE_DOWN"

\* direction = "FADE_UP" if (x.mid_now - x.mid_prev) > 0 else "FADE_DOWN"
DetectorDirection(mid_now, mid_prev) ==
    IF mid_now - mid_prev > 0 THEN "FADE_UP" ELSE "FADE_DOWN"

\* A2CascadeDetector.detect with the default parameters
detect(x) ==
    LET dmid == Abs(x.mid_now - x.mid_prev)
        r1 == IF x.spread_med > 0 /\ x.spread_now >= spread_mult * x.spread_med
              THEN << "SPREAD_EXPANSION" >> ELSE << >>
        r2 == IF x.depth5_med > 0
                 /\ 100 * x.depth5_now <= depth_collapse_mult_PCT * x.depth5_med
              THEN << "DEPTH_COLLAPSE" >> ELSE << >>
        r3 == IF x.sigma_mid_30m > 0 /\ dmid >= jump_sigma_mult * x.sigma_mid_30m
              THEN << "MID_JUMP" >> ELSE << >>
        r4 == IF Len(x.pmwv_history) >= PMWV_MIN_HISTORY
                 /\ PmwvAtLeast(dmid, x.vol_window,
                                Quantile100(x.pmwv_history, pmwv_percentile_PCT))
              THEN << "PMWV_EXTREME" >> ELSE << >>
        reasons == r1 \o r2 \o r3 \o r4
    IN  IF ~CascadeThreshold(Len(reasons))
        THEN DetectorSignal(FALSE, None, reasons)
        ELSE DetectorSignal(TRUE, Some(DetectorDirection(x.mid_now, x.mid_prev)), reasons)

\* a history of n equal values
Repeat(v, n) == [i \in 1..n |-> v]

\* PMWV histories: empty, one short of the minimum, at the minimum and above,
\* constant and not constant, in an order that is not sorted
PmwvHistories ==
    {<< >>, Repeat(0, 29), Repeat(0, 30), Repeat(3, 30), Repeat(5, 31),
     << 8, 6 >> \o Repeat(0, 28), [i \in 1..30 |-> 31 - i]}

DetectorCalls ==
    [spread_now : {10, 20}, spread_med : {0, 10},
     depth5_now : {600, 601}, depth5_med : {0, 1000},
     mid_now : {500, 504}, mid_prev : {500, 504},
     vol_window : {0, 100, 1000}, sigma_mid_30m : {0, 2, 3},
     pmwv_history : PmwvHistories]

InitDetector ==
    /\ LoopInit
    /\ call \in DetectorCalls
    /\ result = None

\* A2CascadeDetector().detect(x)
ApplyDetector ==
    /\ result = None
    /\ result' = Some(detect(call))
    /\ UNCHANGED << call, loopVars >>

NextDetector == ApplyDetector

SpecDetector == InitDetector /\ [][NextDetector]_vars

(***************************************************************************)
(* Claims about A2CascadeDetector.detect, checked under SpecDetector       *)
(***************************************************************************)
\* the four conditions, on the call's inputs
DetectorSpreadHolds ==
    call.spread_med > 0 /\ call.spread_now >= 2 * call.spread_med

DetectorDepthHolds ==
    call.depth5_med > 0 /\ 10 * call.depth5_now <= 6 * call.depth5_med

DetectorJumpHolds ==
    /\ call.sigma_mid_30m > 0
    /\ Abs(call.mid_now - call.mid_prev) >= 2 * call.sigma_mid_30m

\* the move per unit of volume reaches the 95th percentile of the history
PmwvIsExtreme ==
    PmwvAtLeast(Abs(call.mid_now - call.mid_prev), call.vol_window,
                Quantile100(call.pmwv_history, 95))

DetectorPmwvHolds == Len(call.pmwv_history) >= 30 /\ PmwvIsExtreme

DetectorHoldCount ==
    (IF DetectorSpreadHolds THEN 1 ELSE 0) + (IF DetectorDepthHolds THEN 1 ELSE 0)
    + (IF DetectorJumpHolds THEN 1 ELSE 0) + (IF DetectorPmwvHolds THEN 1 ELSE 0)

\* C22: detect reports a cascade iff at least 3 of the 4 conditions hold;
\* the PMWV-extreme condition counts only with a history of at least 30
\* entries, so with a shorter history a cascade is reported iff spread
\* expansion, depth collapse and mid jump all hold.
C22_ThreeOfFour ==
    Returned =>
        /\ Val(result).is_cascade <=> DetectorHoldCount >= 3
        /\ Len(call.pmwv_history) < 30 =>
              /\ \A i \in 1..Len(Val(result).reasons) :
                    Val(result).reasons[i] # "PMWV_EXTREME"
              /\ Val(result).is_cascade <=>
                    (DetectorSpreadHolds /\ DetectorDepthHolds /\ DetectorJumpHolds)

\* C22 witness: a history of 29 entries whose percentile the move exceeds,
\* spread expansion and depth collapse hold, mid jump does not: no cascade
C22_Witness ==
    /\ Returned
    /\ Len(call.pmwv_history) = 29
    /\ PmwvIsExtreme
    /\ DetectorSpreadHolds /\ DetectorDepthHolds /\ ~DetectorJumpHolds
    /\ ~Val(result).is_cascade

\* C23 as stated: every reported cascade has a direction, and with a mid
\* delta of exactly zero the direction is FADE_UP.
C23_Original_ZeroDeltaIsUp ==
    (Returned /\ Val(result).is_cascade) =>
        /\ Val(result).direction # None
        /\ call.mid_now = call.mid_prev => Val(result).direction = Some("FADE_UP")

\* C23: every reported cascade has a direction: FADE_UP when
\* mid_now - mid_prev > 0 and FADE_DOWN otherwise, a delta of exactly zero
\* included.
C23_ZeroDeltaIsDown ==
    (Returned /\ Val(result).is_cascade) =>
        /\ Val(result).direction # None
        /\ call.mid_now - call.mid_prev > 0 => Val(result).direction = Some("FADE_UP")
        /\ call.mid_now - call.mid_prev <= 0 => Val(result).direction = Some("FADE_DOWN")

\* C23 witness: a cascade reported with a mid delta of exactly zero
C23_Witness ==
    /\ Returned
    /\ Val(result).is_cascade
    /\ call.mid_now = call.mid_prev
    /\ Val(result).direction = Some("FADE_DOWN")

(***************************************************************************)
(* Claims about the detector inside the polling loop, checked under Spec   *)
(***************************************************************************)
\* curr_mid, curr_spread and curr_depth5 of that evaluation were present
CurrentPresent ==
    ~IsNone(it.snap.mid) /\ ~IsNone(it.snap.spread) /\ ~IsNone(it.snap.depth5)

\* the last element of a window
Newest(q) == q[Len(q)]

\* C24: in the loop a2_detect never returns INSUFFICIENT_HISTORY: whenever it
\* is evaluated the depth is present (family A passed), and with mid, spread
\* and depth present both medians are present and both windows end with the
\* current observation, appended before the medians were read.
C24_NeverInsufficientHistory ==
    DetectorEvaluated =>
        /\ it.sig.details # << "INSUFFICIENT_HISTORY" >>
        /\ ~IsNone(it.snap.depth5)
        /\ CurrentPresent =>
              /\ ~IsNone(it.med[1]) /\ ~IsNone(it.med[2])
              /\ rolling[it.market_id].spreads # << >>
              /\ Newest(rolling[it.market_id].spreads) = Val(it.snap.spread)
              /\ rolling[it.market_id].depths # << >>
              /\ Newest(rolling[it.market_id].depths) = Val(it.snap.depth5)

\* C24 witness: the detector was evaluated with mid, spread and depth present
\* on windows that hold the current observation alone
C24_Witness ==
    /\ DetectorEvaluated
    /\ CurrentPresent
    /\ rolling[it.market_id].spreads = << Val(it.snap.spread) >>
    /\ rolling[it.market_id].depths = << Val(it.snap.depth5) >>
    /\ it.med = << it.snap.spread, it.snap.depth5 >>
    /\ it.sig.details = << "NO_CASCADE" >>

(***************************************************************************)
(* The polling loop on a universe of one instrument, over MaxRounds        *)
(* cycles; call records the locals of every iteration of the for loop      *)
(***************************************************************************)
MaxRounds == 3

\* the instrument the universe holds in every cycle
Polled == 1

InitHistory ==
    /\ LoopInit
    /\ call = << >>
    /\ result = None

\* top of the while loop: the universe is the one instrument
StartRound ==
    /\ pc = "top"
    /\ cycle < MaxRounds
    /\ metas' = << Polled >>
    /\ cycle' = cycle + 1
    /\ idx' = 1
    /\ pc' = "loop"
    /\ UNCHANGED << last_mid, a2_state, rolling, snapshots, botscores, signals, it,
                    call, result >>

\* one iteration of the for loop, recorded
ProcessPolled ==
    /\ pc = "loop"
    /\ idx <= Len(metas)
    /\ \E vol24h \in Vol24hValues, picked \in PickResults,
          spread_res \in SpreadResults, mid_res \in MidResults :
         LoopBody(metas[idx], fetch_snapshot(metas[idx], vol24h, picked, spread_res, mid_res))
    /\ idx' = idx + 1
    /\ call' = Append(call, it')
    /\ UNCHANGED << cycle, pc, metas, result >>

NextHistory == StartRound \/ ProcessPolled \/ EndCycle

SpecHistory == InitHistory /\ [][NextHistory]_vars

\* the iteration e routed the instrument to the detector
RoutedToDetector(e) == e.snap.ok_clob /\ e.regime \in {"BOT", "MIXED"} /\ e.resA_ok

\* the cycles before cycle n that routed the instrument to the detector
RoutedBefore(n) == {k \in 1..(n - 1) : RoutedToDetector(call[k])}

\* the latest cycle of a non-empty set of cycles
Latest(ks) == CHOOSE k \in ks : \A j \in ks : j <= k

\* in every recorded cycle that routed the instrument to the detector, the
\* prior state is the observation of the latest earlier such cycle, and is
\* empty only when there is none
PriorStateIsLastRouted ==
    \A n \in 1..Len(call) :
        RoutedToDetector(call[n]) =>
            /\ call[n].st = IF RoutedBefore(n) = {} THEN A2StateDefault
                            ELSE ObservationOf(call[Latest(RoutedBefore(n))].snap)
            /\ call[n].st = A2StateDefault => RoutedBefore(n) = {}

\* C25: the prior state passed to the detector is the snapshot of the most
\* recent earlier cycle that routed the instrument to the detector (regime
\* BOT or MIXED and family A passed), however old; a cycle without book
\* access, failing screening or classified HUMAN leaves the cascade state
\* unchanged; the prior state is empty only if no earlier cycle routed the
\* instrument to the detector.
C25_PriorStateIsLastRouted ==
    /\ []PriorStateIsLastRouted
    /\ [][(Len(call') = Len(call) + 1 /\ ~RoutedToDetector(call'[Len(call')]))
            => a2_state' = a2_state]_vars

\* C25 witness: routed in cycle 1, classified HUMAN in cycle 2 with another
\* observation, routed again in cycle 3 with the observation of cycle 1 as
\* prior state
C25_Witness ==
    /\ Len(call) = 3
    /\ RoutedToDetector(call[1])
    /\ call[2].regime = "HUMAN"
    /\ ObservationOf(call[2].snap) # ObservationOf(call[1].snap)
    /\ RoutedToDetector(call[3])
    /\ call[3].st = ObservationOf(call[1].snap)

\* cycle n is the first in which the instrument got past the pre-gate
FirstPastGate(n) ==
    PastGate(call[n].snap) /\ \A k \in 1..(n - 1) : ~PastGate(call[k].snap)

\* C26: in the first cycle in which an instrument gets past the screening
\* pre-gate the detector cannot fire: there is no prior midpoint, a present
\* spread has the medians equal to the current spread and depth, and zero
\* conditions hold, so an evaluated detector returns NO_CASCADE, or
\* MISSING_DATA when the spread or the mid is absent.
C26_NoFireInFirstCycle ==
    \A n \in 1..Len(call) :
        FirstPastGate(n) =>
            /\ ~call[n].sig.fired
            /\ ~IsNone(call[n].snap.spread) =>
                  call[n].med = << call[n].snap.spread, call[n].snap.depth5 >>
            /\ RoutedToDetector(call[n]) =>
                  /\ call[n].st = A2StateDefault
                  /\ call[n].sig.details =
                        IF IsNone(call[n].snap.spread) \/ IsNone(call[n].snap.mid)
                        THEN << "MISSING_DATA" >> ELSE << "NO_CASCADE" >>

\* C26 witness: after a cycle without book access, the first cycle past the
\* pre-gate evaluated the detector with mid, spread and depth present, and it
\* returned NO_CASCADE
C26_Witness ==
    /\ Len(call) >= 2
    /\ ~call[1].snap.ok_clob
    /\ FirstPastGate(2)
    /\ RoutedToDetector(call[2])
    /\ ~IsNone(call[2].snap.spread) /\ ~IsNone(call[2].snap.mid)
    /\ call[2].sig.details = << "NO_CASCADE" >>

(***************************************************************************)
(* Retries: src/providers.py, with_retries                                 *)
(* fn is the script of a callable: fn[k] is the outcome of its k-th call,  *)
(* a returned value or a raised exception                                  *)
(***************************************************************************)
\* the longest script of a callable
MaxAttempts == 3

Returns(v) == [kind |-> "return", value |-> v]

Raises(e) == [kind |-> "raise", value |-> e]

RECURSIVE Pow2(_)
\* 2 ** i
Pow2(i) == IF i <= 0 THEN 1 ELSE 2 * Pow2(i - 1)

\* time.sleep(base_sleep * (2 ** i)), in units of base_sleep
Backoff(i) == Pow2(i)

IsLastAttempt_OffByOne(i, retries) == i = retries

\* if i == retries - 1: raise
IsLastAttempt(i, retries) == i = retries - 1

RECURSIVE RetryLoop(_, _, _, _)
\* for i in range(retries), from the index i on; trace is the sequence of
\* calls of fn and sleeps so far
RetryLoop(fn, retries, i, trace) ==
    IF i >= retries THEN [outcome |-> Returns(None), trace |-> trace]
    ELSE LET called == Append(trace, [event |-> "call", arg |-> i + 1])
         IN  IF fn[i + 1].kind = "return"
             THEN [outcome |-> fn[i + 1], trace |-> called]
             ELSE IF IsLastAttempt(i, retries)
             THEN [outcome |-> fn[i + 1], trace |-> called]
             ELSE RetryLoop(fn, retries, i + 1,
                            Append(called, [event |-> "sleep", arg |-> Backoff(i)]))

\* with_retries(fn, retries=retries): the outcome and the trace of calls and sleeps
with_retries(fn, retries) == RetryLoop(fn, retries, 0, << >>)

\* what one call of a callable can do: return a value or raise one of two
\* exceptions
CallOutcomes == {Returns(7), Returns(8), Raises("E1"), Raises("E2")}

RetriesCalls == [retries : -1..MaxAttempts, fn : [1..MaxAttempts -> CallOutcomes]]

InitRetries ==
    /\ LoopInit
    /\ call \in RetriesCalls
    /\ result = None

\* with_retries(fn, retries=n)
ApplyRetries ==
    /\ result = None
    /\ result' = Some(with_retries(call.fn, call.retries))
    /\ UNCHANGED << call, loopVars >>

NextRetries == ApplyRetries

SpecRetries == InitRetries /\ [][NextRetries]_vars

\* the calls among the first n that return
SucceedingCalls(n) == {k \in 1..n : call.fn[k].kind = "return"}

\* the number of the call at which with_retries stops: the first one that
\* returns, or the n-th
StopsAt(n) ==
    IF SucceedingCalls(n) = {} THEN n
    ELSE CHOOSE k \in SucceedingCalls(n) : \A j \in SucceedingCalls(n) : k <= j

\* calls 1..c of fn with a sleep of 2^(k-1) units after call k, for every call
\* but the last
CallsAndSleeps(c) ==
    [p \in 1..(2 * c - 1) |->
        IF p % 2 = 1 THEN [event |-> "call", arg |-> (p + 1) \div 2]
        ELSE [event |-> "sleep", arg |-> Pow2(p \div 2 - 1)]]

\* C27: with n >= 1, with_retries calls fn at most n times, stops at the
\* first call that returns and returns its value, sleeps base_sleep * 2^i
\* after the i-th failed attempt (i from 0) only between attempts, never
\* after the last, and when all n attempts raise it raises the exception of
\* the n-th; with n <= 0 it returns None without calling fn.
C27_RetriesUntilSuccess ==
    Returned =>
        LET n == call.retries
            r == Val(result)
        IN  /\ n <= 0 => r.outcome = Returns(None) /\ r.trace = << >>
            /\ n >= 1 =>
                  /\ r.trace = CallsAndSleeps(StopsAt(n))
                  /\ StopsAt(n) <= n
                  /\ r.outcome = call.fn[StopsAt(n)]
                  /\ SucceedingCalls(n) = {} => r.outcome = Raises(call.fn[n].value)
                  /\ SucceedingCalls(n) # {} => r.outcome.kind = "return"
                  /\ r.trace[Len(r.trace)].event = "call"

\* C27 witness: three attempts raised E1, E2 and E1 with retries = 3: fn was
\* called three times with sleeps of 1 and 2 units between, and the third
\* exception was raised
C27_Witness ==
    /\ Returned
    /\ call.retries = 3
    /\ call.fn = << Raises("E1"), Raises("E2"), Raises("E1") >>
    /\ Val(result).outcome = Raises("E1")
    /\ Val(result).trace =
          << [event |-> "call", arg |-> 1], [event |-> "sleep", arg |-> 1],
             [event |-> "call", arg |-> 2], [event |-> "sleep", arg |-> 2],
             [event |-> "call", arg |-> 3] >>

(***************************************************************************)
(* fetch_snapshot with its retrievals: src/providers.py                    *)
(* the CLOB client is a script of outcomes for each endpoint               *)
(***************************************************************************)
\* fetch_snapshot(meta, depth_k=5, retries=3, prefer_liquid_token=True)
FETCH_RETRIES == 3

\* the number of calls of fn in a trace of with_retries
CallsIn(trace) == Len(SelectSeq(trace, LAMBDA ev : ev.event = "call"))

get_spread_Propagates(resp) ==
    IF resp.kind = "raise" THEN resp ELSE Returns(Some(resp.value))

\* ClobPublic.get_spread: float(resp["spread"]), None on any exception
get_spread(resp) ==
    IF resp.kind = "raise" THEN Returns(None) ELSE Returns(Some(resp.value))

\* ClobPublic.get_midpoint: float(resp["mid"]), None on any exception
get_midpoint(resp) ==
    IF resp.kind = "raise" THEN Returns(None) ELSE Returns(Some(resp.value))

\* the callable lambda: self.clob.get_spread(token_id) over a client script
SpreadCallable(script) == [k \in DOMAIN script |-> get_spread(script[k])]

\* the callable lambda: self.clob.get_midpoint(token_id) over a client script
MidCallable(script) == [k \in DOMAIN script |-> get_midpoint(script[k])]

\* try: x = with_retries(...) except Exception: x = None
ValueOrNone(r) == IF r.outcome.kind = "raise" THEN None ELSE r.outcome.value

RECURSIVE PickLoop(_, _, _, _, _)
\* for token_id in meta.clob_token_ids[:4], from token t on; books[t] is the
\* script of get_order_book followed by depth5_notional_proxy for token t
PickLoop(books, retries, t, best, calls) ==
    IF t > Len(books) THEN [ok |-> best.ok, depth5 |-> best.depth5, calls |-> calls]
    ELSE LET r == with_retries(books[t], retries)
             counted == Append(calls, CallsIn(r.trace))
         IN  IF r.outcome.kind = "raise" THEN PickLoop(books, retries, t + 1, best, counted)
             ELSE IF IsNone(best.depth5) \/ r.outcome.value > Val(best.depth5)
             THEN PickLoop(books, retries, t + 1,
                           [ok |-> TRUE, depth5 |-> Some(r.outcome.value)], counted)
             ELSE PickLoop(books, retries, t + 1, best, counted)

\* pick_best_token_by_depth: ok, the best depth, and the number of
\* get_order_book calls made for each token
pick_best_token_by_depth(books, retries) ==
    PickLoop(books, retries, 1, [ok |-> FALSE, depth5 |-> None], << >>)

\* fetch_snapshot over the client scripts x.books, x.spread and x.mid: the
\* snapshot and the number of calls made to each endpoint
FetchWithClient(x) ==
    LET picked == pick_best_token_by_depth(x.books, FETCH_RETRIES)
        rs == with_retries(SpreadCallable(x.spread), FETCH_RETRIES)
        rm == with_retries(MidCallable(x.mid), FETCH_RETRIES)
    IN  [snap |-> fetch_snapshot(Polled, None, [ok |-> picked.ok, depth5 |-> picked.depth5],
                                 ValueOrNone(rs), ValueOrNone(rm)),
         book_calls |-> picked.calls,
         spread_calls |-> IF picked.ok THEN CallsIn(rs.trace) ELSE 0,
         mid_calls |-> IF picked.ok THEN CallsIn(rm.trace) ELSE 0]

\* scripts of get_order_book for one token: it raises, or returns a book of
\* depth 100 or 500
BookScripts == [1..MaxAttempts -> {Raises("E1"), Returns(100), Returns(500)}]

\* a client endpoint that raises on its first j - 1 calls and returns v on
\* the others
RaisesUntil(j, v) == [k \in 1..MaxAttempts |-> IF k < j THEN Raises("E1") ELSE Returns(v)]

FetchCalls ==
    [books : {<< b >> : b \in BookScripts} \cup (BookScripts \X BookScripts),
     spread : {RaisesUntil(j, 2) : j \in {1, 2, MaxAttempts + 1}},
     mid : {RaisesUntil(j, 504) : j \in {1, 2, MaxAttempts + 1}}]

InitFetch ==
    /\ LoopInit
    /\ call \in FetchCalls
    /\ result = None

\* provider.fetch_snapshot(meta, depth_k=5, retries=3, prefer_liquid_token=True)
ApplyFetch ==
    /\ result = None
    /\ result' = Some(FetchWithClient(call))
    /\ UNCHANGED << call, loopVars >>

NextFetch == ApplyFetch

SpecFetch == InitFetch /\ [][NextFetch]_vars

\* the number of get_order_book calls a script takes under 3 retries: up to
\* the first one that returns, or all 3
BookCallsNeeded(script) ==
    IF script[1].kind = "return" THEN 1
    ELSE IF script[2].kind = "return" THEN 2
    ELSE 3

VolumeFloorPct(f) == IF f = "A" THEN 5 ELSE 10

\* C29: with the default thresholds and S >= 0, screen never returns
\* EXIT_RISK_TOO_HIGH for either family: a computed exit_risk is at most
\* 1/20 for family A and 1/10 for family H, below the maxima 0.10 and 0.20.
C29_ExitRiskNeverTooHigh ==
    (Returned /\ DefaultThresholds /\ CallS >= 0) =>
        \A f \in {"A", "H"} :
            /\ Val(result)[f].reason # "EXIT_RISK_TOO_HIGH"
            /\ ~IsNone(Val(result)[f].exit_risk) =>
                  /\ AtMostPct(Val(Val(result)[f].exit_risk), VolumeFloorPct(f))
                  /\ VolumeFloorPct(f) < ExitMaxPct(f)
                  /\ Val(result)[f].ok

\* C29 witness: default thresholds, S = 100 and vol24h exactly at the
\* family-A minimum 2000: exit_risk is 1/20 and the result is OK
C29_Witness ==
    /\ Returned
    /\ DefaultThresholds
    /\ CallS = 100
    /\ call.vol24h = Some(2000)
    /\ Val(result)["A"].reason = "OK"
    /\ Val(result)["A"].exit_risk = Some([num |-> 100, den |-> << 2000, 0 >>])

(***************************************************************************)
(* H1 checklist: src/src/strategies/h1_informational.py                    *)
(* probabilities, p_market, edge and min_edge are in hundredths            *)
(***************************************************************************)
\* the longest scenario list
MaxScenarios == 2

\* H1Checklist(min_edge=0.10)
MIN_EDGE_PCT == 10

H1Decision(ok, reason, p_model, edge) ==
    [ok |-> ok, reason |-> reason, p_model |-> p_model, edge |-> edge]

RECURSIVE SumProbs(_)
\* sum(p for _, p in case.scenarios)
SumProbs(scenarios) ==
    IF scenarios = << >> THEN 0 ELSE Head(scenarios) + SumProbs(Tail(scenarios))

\* a normalisation that keeps the first scenario's share of the total
PModel_FirstScenario(scenarios, total) == (100 * Head(scenarios)) \div total

\* p_model = sum(p for _, p in case.scenarios) / total, for total > 0
PModel(scenarios, total) == (100 * SumProbs(scenarios)) \div total

\* H1Checklist(min_edge).evaluate(case); resolution_in_rule is
\* "resolution" in case.thesis_invalidation_rule.lower()
evaluate(min_edge, case) ==
    IF ~case.resolution_source_defined
    THEN H1Decision(FALSE, "NO_RESOLUTION_SOURCE", None, None)
    ELSE IF ~case.wording_is_unambiguous
    THEN H1Decision(FALSE, "WORDING_AMBIGUOUS", None, None)
    ELSE IF case.scenarios = << >>
    THEN H1Decision(FALSE, "NO_SCENARIOS", None, None)
    ELSE LET total == SumProbs(case.scenarios)
         IN  IF total <= 0
             THEN H1Decision(FALSE, "INVALID_SCENARIO_PROBS", None, None)
             ELSE LET p_model == PModel(case.scenarios, total)
                      edge == Abs(p_model - case.p_market)
                  IN  IF edge < min_edge
                      THEN H1Decision(FALSE, "EDGE_TOO_SMALL", Some(p_model), Some(edge))
                      ELSE IF ~case.catalyst_defined /\ ~case.resolution_in_rule
                      THEN H1Decision(TRUE, "OK_NO_CATALYST_ASSUME_HOLD",
                                      Some(p_model), Some(edge))
                      ELSE H1Decision(TRUE, "OK", Some(p_model), Some(edge))

\* scenario lists of up to MaxScenarios probabilities, normalised or not
ScenarioLists ==
    UNION {[1..n -> {-50, 0, 30, 70}] : n \in 0..MaxScenarios}

H1Cases ==
    [resolution_source_defined : BOOLEAN, wording_is_unambiguous : BOOLEAN,
     scenarios : ScenarioLists, p_market : {0, 50, 75, 89, 90, 91, 100},
     catalyst_defined : BOOLEAN, resolution_in_rule : BOOLEAN]

InitH1 ==
    /\ LoopInit
    /\ call \in [min_edge : {MIN_EDGE_PCT, 25}, case : H1Cases]
    /\ result = None

\* H1Checklist(min_edge).evaluate(case)
ApplyH1 ==
    /\ result = None
    /\ result' = Some(evaluate(call.min_edge, call.case))
    /\ UNCHANGED << call, loopVars >>

NextH1 == ApplyH1

SpecH1 == InitH1 /\ [][NextH1]_vars

\* the case passes the resolution-source, wording and scenario gates
PassesGates ==
    /\ call.case.resolution_source_defined
    /\ call.case.wording_is_unambiguous
    /\ call.case.scenarios # << >>
    /\ SumProbs(call.case.scenarios) > 0

\* C30: for every case past the resolution-source, wording and scenario
\* gates p_model is exactly 1 whatever the scenario probabilities are, so
\* edge = |1 - p_market| and the decision is EDGE_TOO_SMALL iff
\* |1 - p_market| < min_edge.
C30_ModelProbabilityIsOne ==
    (Returned /\ PassesGates) =>
        /\ Val(result).p_model = Some(100)
        /\ Val(result).edge = Some(Abs(100 - call.case.p_market))
        /\ Val(result).reason = "EDGE_TOO_SMALL" <=>
              Abs(100 - call.case.p_market) < call.min_edge
        /\ Val(result).reason \in {"EDGE_TOO_SMALL", "OK", "OK_NO_CATALYST_ASSUME_HOLD"}

\* C30 witness: scenarios 0.3 and 0.7 in favour of the other outcome and a
\* market at 0.91: p_model is 1, the edge 0.09, the decision EDGE_TOO_SMALL
C30_Witness ==
    /\ Returned
    /\ PassesGates
    /\ call.case.scenarios = << 30, 70 >>
    /\ call.case.p_market = 91
    /\ call.min_edge = MIN_EDGE_PCT
    /\ Val(result) = H1Decision(FALSE, "EDGE_TOO_SMALL", Some(100), Some(9))


=============================================================================
